---- MODULE Spec2Model ----
(***************************************************************************)
(* BaseDao of egg-arango: the AQL fragment builders, the operations that   *)
(* compose one parameterised query each, and the effect of those queries   *)
(* on a collection.  Two variants of BaseDao are in the repository:        *)
(*   V1 = src/app/dao/base.js        V2 = src/unnamed/part_002             *)
(***************************************************************************)
EXTENDS Integers, Sequences, FiniteSets, TLC

VARIABLES
    variant,      \* which BaseDao file is loaded (V1 or V2)
    aqlOp,        \* name of the operation of the last call
    aqlParams,    \* the parameter object of the last call
    aqlOutcome,   \* "none", "BizError" (validation failed) or "issued"
    aqlQuery,     \* the query text of the last call, a sequence of tokens
    coll,         \* the document collection: _key -> stored document
    edges,        \* the edge collection: _key -> stored edge
    trail,        \* history: the states <<coll, edges>> the data went through
                  \* while the page call in flight was waiting for its query
    nextKey,      \* the engine's key generator: index of the next _key
    deleted,      \* history: per _key, whether delete succeeded on it "no",
                  \* "once" or "again"
    res           \* what the last call returned or threw

vars ==
    <<variant, aqlOp, aqlParams, aqlOutcome, aqlQuery, coll, edges, trail, nextKey,
      deleted, res>>

V1 == "app/dao/base.js"
V2 == "unnamed/part_002"
Variants == {V1, V2}

-----------------------------------------------------------------------------
(* JavaScript values of the request data *)

Undefined == [k |-> "undefined"]
Null == [k |-> "null"]
NaN == [k |-> "NaN"]
Infinity == [k |-> "Infinity"]
Str(s) == [k |-> "string", v |-> s]
Num(n) == [k |-> "number", v |-> n]
Arr(s) == [k |-> "array", v |-> s]
Bool(b) == [k |-> "boolean", v |-> b]
\* a string given by its pieces, for the strings the code splits: "name,password"
\* is Chars(<<"name", ",", "password">>)
Chars(pieces) == [k |-> "chars", v |-> pieces]
\* an object is the sequence of its entries, in insertion order
Obj(entries) == [k |-> "object", v |-> entries]
Entry(key, val) == [key |-> key, val |-> val]

IsArray(x) == x.k = "array"
IsObject(x) == x.k = "object"
\* !!x
Truthy(x) ==
    /\ x.k \notin {"undefined", "null", "NaN"}
    /\ (x.k = "string" => x.v # "")
    /\ (x.k = "chars" => x.v # <<>>)
    /\ (x.k = "number" => x.v # 0)
    /\ (x.k = "boolean" => x.v)
\* x.name
Get(x, name) ==
    IF IsObject(x) /\ \E i \in 1..Len(x.v) : x.v[i].key = name
    THEN x.v[CHOOSE i \in 1..Len(x.v) : x.v[i].key = name].val
    ELSE Undefined

-----------------------------------------------------------------------------
(* arangojs aql template: a query is a sequence of tokens.  Template text  *)
(* is T, aql.literal(x) is inlined as L, every other interpolated value is *)
(* a bind parameter B; an interpolated undefined contributes nothing.      *)

T(s) == <<[k |-> "text", v |-> s]>>
L(s) == <<[k |-> "literal", v |-> s]>>
B(x) == <<[k |-> "bind", v |-> x]>>
\* an interpolated undefined fragment contributes nothing to the query text
NoAql == <<>>

RECURSIVE join(_)
join(list) == IF list = <<>> THEN <<>> ELSE Head(list) \o join(Tail(list))

\* the text of a string given by its pieces
RECURSIVE Concat(_)
Concat(pieces) == IF pieces = <<>> THEN "" ELSE Head(pieces) \o Concat(Tail(pieces))

\* aql.literal(value).toAQL(): String(value), "" for undefined
LiteralText(x) ==
    CASE x.k = "undefined" -> ""
      [] x.k = "string" -> x.v
      [] x.k = "chars" -> Concat(x.v)
      [] x.k = "null" -> "null"
      [] x.k = "object" -> "[object Object]"
      [] OTHER -> x.k

\* `${value}` inside a template string: String(value), "undefined" included
TemplateText(x) == IF x.k = "undefined" THEN "undefined" ELSE LiteralText(x)

-----------------------------------------------------------------------------
(* constructor: attribute lists *)

\* this.unset: stripped from every payload of save and update
unset == <<"_id", "_rev", "_key", "_status", "_create_date">>

\* this.unsetRes: excluded from every response
unsetRes(ver) ==
    IF ver = V2 THEN <<"_rev", "_key", "_status", "password">>
    ELSE <<"_rev", "_key", "_status", "password", "_token", "_token_expire_date">>

Range(s) == {s[i] : i \in 1..Len(s)}

\* a convertOffset that counts pages from 0
convertOffsetFromZero(page_num, page_size) ==
    IF page_num # 0 /\ page_size # 0 /\ page_num > 0
    THEN page_num * page_size
    ELSE 0

\* this.convertOffset
convertOffset(page_num, page_size) ==
    IF page_num # 0 /\ page_size # 0 /\ page_num > 0
    THEN (page_num - 1) * page_size
    ELSE 0

-----------------------------------------------------------------------------
(* fragment builders *)

\* if (!alias) alias = 't'
AliasOr(alias) == IF alias = "" THEN "t" ELSE alias

\* getArrayAttrAql: opr 'POSITION', the filter value(s) must occur in the
\* document's array attribute
getArrayAttrAql(alias, key, data) ==
    IF IsArray(data)
    THEN join([idx \in 1..Len(data.v) |->
                 (IF idx = 1 THEN T("FILTER") ELSE <<>>)
                 \o B(data.v[idx]) \o T("in") \o L(alias) \o T(".") \o B(Str(key))
                 \o (IF idx = Len(data.v) THEN <<>> ELSE T("or"))])
    ELSE T("FILTER") \o B(data) \o T("in") \o L(alias) \o T(".") \o B(Str(key))

\* the {opr, value} branch of getFilterAql is taken for truthy non-array objects
IsOprValue(ver, data) == ver = V2 /\ ~IsArray(data) /\ Truthy(data) /\ IsObject(data)
IsPosition(ver, data) == IsOprValue(ver, data) /\ Get(data, "opr") = Str("POSITION")

\* one entry of the filter, as the fragment its branch of getFilterAql pushes
FilterEntryAql(ver, alias, e) ==
    IF IsArray(e.val)
    THEN T("and") \o L(alias) \o T(".") \o B(Str(e.key)) \o T("in") \o B(e.val)
    ELSE IF IsPosition(ver, e.val)
    THEN getArrayAttrAql(alias, e.key, Get(e.val, "value"))
    ELSE IF IsOprValue(ver, e.val)
    THEN T("and") \o L(alias) \o T(".") \o B(Str(e.key))
         \o L(LiteralText(Get(e.val, "opr"))) \o B(Get(e.val, "value"))
    ELSE T("and") \o L(alias) \o T(".") \o B(Str(e.key)) \o T("==") \o B(e.val)

\* a getFilterAql that tests the first key of the filter only
getFilterAqlOfFirstKey(ver, filter, alias) ==
    IF ~Truthy(filter) \/ Len(filter.v) = 0 THEN NoAql
    ELSE join(<<FilterEntryAql(ver, AliasOr(alias), filter.v[1])>>)

\* getFilterAql: equality and membership first, then {opr, value}, then POSITION
getFilterAql(ver, filter, alias) ==
    IF ~Truthy(filter) THEN NoAql
    ELSE LET a == AliasOr(alias)
             es == filter.v
             filterAqlList == SelectSeq(es, LAMBDA e : ~IsOprValue(ver, e.val))
             otherFilterAqlList ==
                 SelectSeq(es, LAMBDA e : IsOprValue(ver, e.val) /\ ~IsPosition(ver, e.val))
             arrayAttrAqlList == SelectSeq(es, LAMBDA e : IsPosition(ver, e.val))
             all == filterAqlList \o otherFilterAqlList \o arrayAttrAqlList
         IN IF Len(all) = 0 THEN NoAql
            ELSE join([i \in 1..Len(all) |-> FilterEntryAql(ver, a, all[i])])

\* one LIKE(...) call of getLikeAql; caseFlag exists in V2 only
LikeCallAql(ver, alias, el) ==
    T("LIKE(") \o L(alias) \o T(".") \o B(Str(el.field)) \o T(",") \o B(Str(el.search))
    \o (IF ver = V2 /\ el.caseFlag THEN L(", true") ELSE <<>>) \o T(")")

\* like fragments that leave the and-group out
getLikeAqlOfOrGroup(ver, like, alias) ==
    LET a == AliasOr(alias)
        orList == IF Truthy(like) /\ Truthy(like.v.or) THEN like.v.or.v ELSE <<>>
        orAqlList == [idx \in 1..Len(orList) |->
                        (IF idx = 1 THEN T("FILTER") ELSE <<>>)
                        \o LikeCallAql(ver, a, orList[idx])
                        \o (IF idx = Len(orList) THEN <<>> ELSE T("or"))]
    IN [orAql |-> IF Len(orAqlList) # 0 THEN join(orAqlList) ELSE NoAql,
        andAql |-> NoAql]

\* getLikeAql: the or-group shares one FILTER, every and-item has its own
getLikeAql(ver, like, alias) ==
    LET a == AliasOr(alias)
        orList == IF Truthy(like) /\ Truthy(like.v.or) THEN like.v.or.v ELSE <<>>
        andList == IF Truthy(like) /\ Truthy(like.v.and) THEN like.v.and.v ELSE <<>>
        orAqlList == [idx \in 1..Len(orList) |->
                        (IF idx = 1 THEN T("FILTER") ELSE <<>>)
                        \o LikeCallAql(ver, a, orList[idx])
                        \o (IF idx = Len(orList) THEN <<>> ELSE T("or"))]
        andAqlList == [idx \in 1..Len(andList) |->
                        T("FILTER") \o LikeCallAql(ver, a, andList[idx])]
    IN [orAql |-> IF Len(orAqlList) # 0 THEN join(orAqlList) ELSE NoAql,
        andAql |-> IF Len(andAqlList) # 0 THEN join(andAqlList) ELSE NoAql]

\* ${!el.direction ? '' : el.direction}
DirectionOf(el) == IF el.direction = Undefined THEN Str("") ELSE el.direction

\* getSortFieldAqlList: the sort keys, without the SORT keyword
getSortFieldAqlList(ver, sorts, alias) ==
    LET a == AliasOr(alias) IN
    IF ver = V2
    THEN IF ~Truthy(sorts) THEN << L(a) \o T("._id") >>
         ELSE [idx \in 1..Len(sorts.v) |->
                 L(a) \o T(".") \o B(Str(sorts.v[idx].field))
                 \o B(DirectionOf(sorts.v[idx]))]
    ELSE IF ~Truthy(sorts) \/ Len(sorts.v) = 0
         THEN << L(a) \o T("._create_date desc") >>
         ELSE [idx \in 1..Len(sorts.v) |->
                 L(a) \o T(".") \o B(Str(sorts.v[idx].field))
                 \o B(DirectionOf(sorts.v[idx]))
                 \o (IF idx = Len(sorts.v) THEN <<>> ELSE T(","))]

\* getSortAql: SORT in front, V2 adds the commas between the keys
getSortAql(ver, sortFieldAqlList) ==
    IF ver = V2
    THEN IF Len(sortFieldAqlList) > 0
         THEN T("SORT") \o sortFieldAqlList[1]
              \o join([i \in 1..(Len(sortFieldAqlList) - 1) |->
                         T(",") \o sortFieldAqlList[i + 1]])
         ELSE <<>>
    ELSE T("SORT") \o join(sortFieldAqlList)

\* String.prototype.split(','): the segments between the commas
RECURSIVE SplitComma(_, _, _)
SplitComma(pieces, cur, acc) ==
    IF pieces = <<>> THEN Append(acc, cur)
    ELSE IF Head(pieces) = "," THEN SplitComma(Tail(pieces), "", Append(acc, cur))
    ELSE SplitComma(Tail(pieces), cur \o Head(pieces), acc)

\* keepAttrs.trim() === ''
IsBlank(pieces) == \A i \in 1..Len(pieces) : pieces[i] = " "

\* options.keepAttrs && options.keepAttrs.trim() !== ''
HasKeepAttrs(options) ==
    Truthy(options) /\ Truthy(options.v.keepAttrs) /\ ~IsBlank(options.v.keepAttrs.v)

\* the requested names as they come, nothing removed
KeepAttrsAsRequested(ver, options) == SplitComma(options.v.keepAttrs.v, "", <<>>)

\* options.keepAttrs.split(',').filter(v => !this.unsetRes.includes(v))
KeepAttrsOf(ver, options) ==
    SelectSeq(SplitComma(options.v.keepAttrs.v, "", <<>>),
              LAMBDA a : a \notin Range(unsetRes(ver)))

StrArr(names) == Arr([i \in 1..Len(names) |-> Str(names[i])])

\* `${func}(${alias}, ${keepAttrs})`
ProjectAql(func, alias, attrs) ==
    L(func) \o T("(") \o L(alias) \o T(",") \o B(StrArr(attrs)) \o T(")")

\* `{ vertex: ${func}(${alias}, ${keepAttrs}), edge: ${func}(e, ${keepAttrs}) }`
PairAql(func, alias, attrs) ==
    T("{ vertex:") \o ProjectAql(func, alias, attrs) \o T(", edge:")
    \o L(func) \o T("(e,") \o B(StrArr(attrs)) \o T(") }")

\* `MERGE(${func}(${alias}, ${keepAttrs}), {_from: e._from, _to: e._to})`
MergeAql(func, alias, attrs) ==
    T("MERGE(") \o ProjectAql(func, alias, attrs) \o T(", {_from: e._from, _to: e._to})")

\* getResAql of V2
getResAqlV2(options, alias) ==
    LET edgeFlag == ~(alias = "" \/ alias = "t")
        a == IF edgeFlag THEN alias ELSE "t"
        func == IF HasKeepAttrs(options) THEN "KEEP" ELSE "UNSET"
        keepAttrs == IF HasKeepAttrs(options) THEN KeepAttrsOf(V2, options)
                     ELSE unsetRes(V2)
    IN IF Truthy(options) /\ edgeFlag /\ options.v.hasEdge
       THEN PairAql(func, a, keepAttrs)
       ELSE IF Truthy(options) /\ edgeFlag /\ options.v.hasFromTo
       THEN MergeAql(func, a, keepAttrs)
       ELSE ProjectAql(func, a, keepAttrs)

\* getResAql of V1
getResAqlV1(options, alias) ==
    LET edgeFlag == alias # ""
        a == AliasOr(alias)
        func == IF HasKeepAttrs(options) THEN "KEEP" ELSE "UNSET"
        keepAttrs == IF HasKeepAttrs(options) THEN KeepAttrsOf(V1, options)
                     ELSE unsetRes(V1)
    IN IF ~Truthy(options)
       THEN IF edgeFlag THEN MergeAql("UNSET", a, unsetRes(V1))
            ELSE ProjectAql("UNSET", a, unsetRes(V1))
       ELSE IF options.v.hasEdge THEN PairAql(func, a, keepAttrs)
       ELSE ProjectAql(func, a, keepAttrs)

\* getResAql: the RETURN expression
getResAql(ver, options, alias) ==
    IF ver = V2 THEN getResAqlV2(options, alias) ELSE getResAqlV1(options, alias)

\* getStaticDataAql (V2 only): the pass over `list` that expands the
\* attributes with suffix _scode / _acode
getStaticDataAql(ver, options) ==
    IF ver = V1 THEN NoAql
    ELSE IF ~Truthy(options)
            \/ ~(options.v.convertStaticFlag \/ options.v.convertAreaFlag)
    THEN T("for t in list return t")
    ELSE T("for rt in") \o L("list")
         \o (IF options.v.convertStaticFlag
             THEN T("let types = (...) let staticRet = MERGE(...)")
             ELSE T("let staticRet = {}"))
         \o (IF options.v.convertAreaFlag
             THEN T("let areaTypes = (...) let areaRet = MERGE(...)")
             ELSE T("let areaRet = {}"))
         \o T("return MERGE(rt, staticRet, areaRet)")

\* getCollectionName / getWithCollectionNames of the Dao class under test
getCollectionName == "test"
getWithCollectionNames == "test"

-----------------------------------------------------------------------------
(* Joi schemas of the constructor; a schema is the predicate "validate     *)
(* reports no error".  An optional key is passed as Undefined when absent. *)

Optional(x, schema(_)) == x = Undefined \/ schema(x)

\* Joi.any().invalid(...).required()
AnyInvalid(x, invalid) == x # Undefined /\ x \notin invalid

\* Joi.string(): a string, the empty string is not allowed
JoiString(x) == (x.k = "string" /\ x.v # "") \/ (x.k = "chars" /\ x.v # <<>>)

\* Joi.number().integer()
JoiInteger(x) == x.k = "number"

\* V2 filterMinRequired, V1 filterMinSchema
filterMinRequired(x) ==
    /\ IsObject(x) /\ Len(x.v) >= 1
    /\ \A i \in 1..Len(x.v) : AnyInvalid(x.v[i].val, {Str(""), Null, NaN, Infinity})

\* V2 filterMinValid
filterMinValid(x) ==
    /\ IsObject(x) /\ Len(x.v) >= 1
    /\ \A i \in 1..Len(x.v) : AnyInvalid(x.v[i].val, {NaN, Infinity})

\* V2 filterCommon
filterCommon(x) ==
    /\ IsObject(x)
    /\ \A i \in 1..Len(x.v) : AnyInvalid(x.v[i].val, {NaN, Infinity})

\* V1 filterSchema
filterSchema(x) ==
    /\ IsObject(x)
    /\ \A i \in 1..Len(x.v) : AnyInvalid(x.v[i].val, {Str(""), Null, NaN, Infinity})

\* the schema of the filter of the read operations that allow an empty one
filterOfVariant(ver, x) == IF ver = V2 THEN filterCommon(x) ELSE filterSchema(x)

\* this.sortSchema
sortSchema(x) ==
    /\ IsArray(x) /\ Len(x.v) >= 1
    /\ \A i \in 1..Len(x.v) :
          /\ x.v[i].field # ""
          /\ x.v[i].direction \in
                {Undefined, Str(""), Str("asc"), Str("desc"), Str("ASC"), Str("DESC")}

\* one item of the or / and group of this.likeSchema; caseFlag is a key of
\* the V2 schema only
likeItems(ver, x) ==
    /\ IsArray(x) /\ Len(x.v) >= 1
    /\ \A i \in 1..Len(x.v) :
          /\ x.v[i].field # "" /\ x.v[i].search # ""
          /\ (ver = V1 => ~x.v[i].caseFlag)

\* this.likeSchema
likeSchema(ver, x) ==
    /\ IsObject(x)
    /\ Optional(x.v.or, LAMBDA y : likeItems(ver, y))
    /\ Optional(x.v.and, LAMBDA y : likeItems(ver, y))
    /\ (x.v.or # Undefined \/ x.v.and # Undefined)

\* this.optionsSchema; V1 knows the keys hasEdge and keepAttrs only
optionsSchema(ver, x) ==
    /\ IsObject(x)
    /\ (x.v.keepAttrs # Undefined => x.v.keepAttrs.k = "chars" /\ x.v.keepAttrs.v # <<>>)
    /\ (ver = V1 => ~x.v.hasFromTo /\ ~x.v.depthLimit
                    /\ ~x.v.convertStaticFlag /\ ~x.v.convertAreaFlag)

\* Joi.string().valid('OUTBOUND', 'INBOUND', 'ANY').required()
Directions == {"OUTBOUND", "INBOUND", "ANY"}
directionSchema(x) == x.k = "string" /\ x.v \in Directions

-----------------------------------------------------------------------------
(* the operations: the schema each validates its input against, and the    *)
(* query it composes.  date is the formatted moment() of the call.         *)

collection == L(getCollectionName)

getOneSchema(ver, p) ==
    JoiString(p._id) /\ Optional(p.options, LAMBDA o : optionsSchema(ver, o))

\* a getOne that looks at the _id only
getOneFilterById(p) == T("FILTER") \o T("t._id ==") \o B(p._id)

\* FILTER t._id == ${_params._id} && t._status == true
getOneFilter(p) ==
    T("FILTER") \o T("t._id ==") \o B(p._id) \o T("&&") \o T("t._status == true")

getOneAql(ver, p) ==
    IF ver = V2
    THEN T("LET list = ( FOR t IN") \o collection \o getOneFilter(p)
         \o T("RETURN") \o getResAql(ver, p.options, "") \o T(")")
         \o getStaticDataAql(ver, p.options)
    ELSE T("FOR t IN") \o collection \o getOneFilter(p)
         \o T("RETURN") \o getResAql(ver, p.options, "")

getOneByFilterSchema(ver, p) ==
    filterMinRequired(p.filter) /\ Optional(p.options, LAMBDA o : optionsSchema(ver, o))

\* FILTER t._status == true ${filterAql}
getOneByFilterFilter(ver, p) ==
    T("FILTER") \o T("t._status == true") \o getFilterAql(ver, p.filter, "")

getOneByFilterAql(ver, p) ==
    IF ver = V2
    THEN T("LET list = ( FOR t IN") \o collection \o getOneByFilterFilter(ver, p)
         \o T("SORT t._create_date desc") \o T("RETURN")
         \o getResAql(ver, p.options, "") \o T(")") \o getStaticDataAql(ver, p.options)
    ELSE T("FOR t IN") \o collection \o getOneByFilterFilter(ver, p)
         \o T("RETURN") \o getResAql(ver, p.options, "")

\* Joi.object({...}) knows no key offset or count: a parameter object that
\* carries one is rejected
getPageSchema(ver, p) ==
    /\ JoiInteger(p.page_num) /\ JoiInteger(p.page_size)
    /\ p.offset = Undefined /\ p.count = Undefined
    /\ Optional(p.filter, LAMBDA f : filterOfVariant(ver, f))
    /\ Optional(p.like, LAMBDA l : likeSchema(ver, l))
    /\ Optional(p.sorts, sortSchema)
    /\ Optional(p.options, LAMBDA o : optionsSchema(ver, o))

\* FILTER lines that leave the like groups out
DocFilterAqlWithoutLike(ver, p) ==
    T("FILTER") \o T("t._status == true") \o getFilterAql(ver, p.filter, "")

\* the FILTER lines of getsByFilter and getPage
DocFilterAql(ver, p) ==
    LET like == getLikeAql(ver, p.like, "") IN
    T("FILTER") \o T("t._status == true") \o getFilterAql(ver, p.filter, "")
    \o (IF ver = V2 THEN like.andAql \o like.orAql ELSE like.orAql \o like.andAql)

getPageAql(ver, p) ==
    LET offset == Num(convertOffset(p.page_num.v, p.page_size.v))
        count == p.page_size
    IN T("LET ts = ( FOR t IN") \o collection \o DocFilterAql(ver, p)
       \o getSortAql(ver, getSortFieldAqlList(ver, p.sorts, ""))
       \o T("RETURN") \o getResAql(ver, p.options, "") \o T(")")
       \o T("LET tsl = (") \o (IF ver = V2 THEN T("LET list = (") ELSE <<>>)
       \o T("FOR tl IN ts LIMIT") \o B(offset) \o T(",") \o B(count) \o T("RETURN tl")
       \o (IF ver = V2 THEN T(")") \o getStaticDataAql(ver, p.options) ELSE <<>>)
       \o T(") LET totalCount = LENGTH(ts) LET flag = (") \o B(offset) \o T("+")
       \o B(count) \o T(">= totalCount) LET end = flag ? totalCount :") \o B(offset)
       \o T("+") \o B(count) \o T("LET hasMore = !flag RETURN")
       \o T("{total_count:totalCount, has_more:hasMore, end:end,")
       \o (IF ver = V2 THEN T("list") ELSE L("tests")) \o T(":tsl}")

saveSchema(ver, doc) == filterMinRequired(doc)

saveAql(ver, doc, date) ==
    T("INSERT MERGE(UNSET(") \o B(doc) \o T(",") \o B(StrArr(unset))
    \o T("), { _create_date:") \o B(Str(date)) \o T(", _status: true }) INTO")
    \o collection \o T("RETURN {_id: NEW._id}")

updateSchema(ver, p) ==
    /\ JoiString(p._id)
    /\ IF ver = V2
       THEN filterMinValid(p.newObj) /\ Optional(p.aqlOption, filterCommon)
       ELSE filterMinRequired(p.newObj) /\ p.aqlOption = Undefined

\* V2: FILTER t._id == ${_params._id} and t._status == true
updateFilter(p) ==
    T("FILTER") \o T("t._id ==") \o B(p._id) \o T("and") \o T("t._status == true")

updateAql(ver, p, date) ==
    IF ver = V2
    THEN T("FOR t IN") \o collection \o updateFilter(p)
         \o T("UPDATE t WITH MERGE(UNSET(") \o B(p.newObj)
         \o T(",") \o B(StrArr(unset)) \o T("), { _update_date:") \o B(Str(date))
         \o T("}) IN") \o collection \o L("OPTIONS " \o TemplateText(p.aqlOption))
         \o T("RETURN {_id: NEW._id}")
    ELSE T("LET key = PARSE_IDENTIFIER(") \o B(p._id)
         \o T(").key UPDATE key WITH MERGE(UNSET(") \o B(p.newObj)
         \o T(",") \o B(StrArr(unset)) \o T("), { _update_date:") \o B(Str(date))
         \o T("}) IN") \o collection \o T("RETURN {_id: NEW._id}")

deleteSchema(ver, _id) == JoiString(_id)

deleteAql(ver, _id) ==
    T("LET key = PARSE_IDENTIFIER(") \o B(_id)
    \o T(").key UPDATE key WITH { _status: false } IN") \o collection
    \o T("RETURN {_id: NEW._id}")

physicalDeleteAql(ver, _id) ==
    T("LET key = PARSE_IDENTIFIER(") \o B(_id) \o T(").key REMOVE key IN")
    \o collection \o T("RETURN {_id: OLD._id}")

deletesSchema(ver, _ids) ==
    IsArray(_ids) /\ Len(_ids.v) >= 1 /\ \A i \in 1..Len(_ids.v) : JoiString(_ids.v[i])

deletesAql(ver, _ids) ==
    T("let tsl = ( FOR t IN") \o B(_ids)
    \o T("LET key = PARSE_IDENTIFIER(t).key UPDATE key WITH { _status: false } IN")
    \o collection \o T("RETURN NEW._id ) RETURN {_ids: tsl}")

\* the v/e filter fragments of the edge and graph operations
EdgeFilterAql(ver, p) ==
    (IF Truthy(p.v_filter) THEN getFilterAql(ver, p.v_filter, "v") ELSE NoAql)
    \o (IF Truthy(p.e_filter) THEN getFilterAql(ver, p.e_filter, "e") ELSE NoAql)

\* the FILTER of getVertices and getVerticesPage, without the like fragments
getVerticesFilter(ver, p) ==
    T("FILTER") \o T("v._status == true") \o T("&&") \o T("e._status == true")
    \o EdgeFilterAql(ver, p)

\* the FILTER of getGraphVertices: V2 tests the whole path, V1 the last
\* vertex and the truthiness of the last edge's _status
getGraphVerticesFilter(ver, p) ==
    (IF ver = V2
     THEN T("FILTER") \o T("p.vertices[*]._status ALL == true") \o T("and")
          \o T("p.edges[*]._status ALL == true")
     ELSE T("FILTER") \o T("v._status == true") \o T("and") \o T("e._status"))
    \o EdgeFilterAql(ver, p)

\* the sort keys of the edge and graph operations.  V2: edge keys in front
\* when e_sorts is given; V1 discards the result of concat and sorts by the
\* vertex keys alone
EdgeSortAql(ver, p) ==
    LET eSortAqlList == getSortFieldAqlList(ver, p.e_sorts, "e")
        vSortAqlList == getSortFieldAqlList(ver, p.v_sorts, "v")
    IN IF ver = V2
       THEN getSortAql(ver, IF Truthy(p.e_sorts) THEN eSortAqlList \o vSortAqlList
                            ELSE vSortAqlList \o eSortAqlList)
       ELSE getSortAql(ver, vSortAqlList)

getGraphVerticesSchema(ver, direction, p) ==
    /\ directionSchema(direction)
    /\ JoiString(p.start_id) /\ JoiInteger(p.depth)
    /\ Optional(p.v_filter, LAMBDA f : filterOfVariant(ver, f))
    /\ Optional(p.e_filter, LAMBDA f : filterOfVariant(ver, f))
    /\ Optional(p.v_sorts, sortSchema) /\ Optional(p.e_sorts, sortSchema)
    /\ Optional(p.options, LAMBDA o : optionsSchema(ver, o))

\* the traversal depth inlined by getGraphVertices
DepthText(ver, p) ==
    LET d == p.depth.v IN
    IF ver = V2
    THEN IF d # 0 /\ d > 0
         THEN IF (Truthy(p.options) /\ p.options.v.depthLimit) \/ d = 1
              THEN ToString(d)
              ELSE "1.." \o ToString(d)
         ELSE "0"
    ELSE "1.." \o ToString(IF d = 0 \/ d < 1 THEN 1 ELSE d)

getGraphVerticesAql(ver, direction, p) ==
    LET depthAql == L(DepthText(ver, p))
        startIdSql == L(LiteralText(p.start_id))
        sortAql == EdgeSortAql(ver, p)
    IN T("WITH") \o L(getWithCollectionNames) \o T("LET tsl = (")
       \o (IF ver = V2 THEN T("LET list = (") ELSE <<>>)
       \o T("FOR v, e, p IN") \o depthAql \o L(LiteralText(direction))
       \o T("'") \o startIdSql \o T("' GRAPH '") \o collection \o T("'")
       \o getGraphVerticesFilter(ver, p) \o sortAql
       \o T("RETURN") \o getResAql(ver, p.options, "v")
       \o (IF ver = V2 THEN T(")") \o getStaticDataAql(ver, p.options)
                            \o T(") RETURN tsl")
           ELSE T(") RETURN {") \o L("tests") \o T(": tsl}"))

getVerticesSchema(ver, direction, p) ==
    /\ directionSchema(direction)
    /\ JoiString(p._id)
    /\ Optional(p.v_filter, LAMBDA f : filterOfVariant(ver, f))
    /\ Optional(p.e_filter, LAMBDA f : filterOfVariant(ver, f))
    /\ Optional(p.v_sorts, sortSchema) /\ Optional(p.e_sorts, sortSchema)
    /\ Optional(p.options, LAMBDA o : optionsSchema(ver, o))

getVerticesAql(ver, direction, p) ==
    T("WITH") \o L(getWithCollectionNames) \o T("LET tsl = (")
    \o (IF ver = V2 THEN T("LET list = (") ELSE <<>>)
    \o T("FOR v,e IN") \o L(LiteralText(direction)) \o B(p._id) \o collection
    \o getVerticesFilter(ver, p) \o EdgeSortAql(ver, p)
    \o T("RETURN") \o getResAql(ver, p.options, "v")
    \o (IF ver = V2 THEN T(")") \o getStaticDataAql(ver, p.options) \o T(") RETURN tsl")
        ELSE T(") RETURN {") \o L("tests") \o T(": tsl}"))

-----------------------------------------------------------------------------
(* Request data of the composition check: what a caller may put into the   *)
(* parameter object of an operation.                                       *)

\* a string no developer-written identifier equals
Inject == "x' || true RETURN t //"

Options(keepAttrs, hasEdge, hasFromTo, depthLimit) ==
    [k |-> "object",
     v |-> [keepAttrs |-> keepAttrs, hasEdge |-> hasEdge, hasFromTo |-> hasFromTo,
            depthLimit |-> depthLimit,
            convertStaticFlag |-> FALSE, convertAreaFlag |-> FALSE]]

OprValue(opr, value) == Obj(<<Entry("opr", opr), Entry("value", value)>>)

\* the operators the comment of getFilterAql lists as supported
SupportedOprs ==
    {"==", "!=", "<", "<=", ">", ">=", "IN", "NOT IN", "LIKE", "=~", "!~", "POSITION"}

ReqIds == {Str("test/1"), Str(Inject), Str("")}

ReqFilterValues ==
    {Str("u1"), Str(Inject), Str(""), Null, NaN,
     Arr(<<Str("u1"), Str(Inject)>>),
     OprValue(Str(">="), Num(1)), OprValue(Str(Inject), Num(1)),
     OprValue(Str("POSITION"), Arr(<<Str("a"), Str(Inject)>>)),
     OprValue(Str("POSITION"), Str("a"))}

ReqFilters ==
    {Undefined, Obj(<<>>)}
    \cup {Obj(<<Entry("name", fv)>>) : fv \in ReqFilterValues}
    \cup {Obj(<<Entry("tags", OprValue(Str("POSITION"), Str("a"))),
                Entry("age", OprValue(Str("<"), Num(3))),
                Entry("name", Str("u1"))>>)}

ReqKeepAttrs ==
    {Undefined, Chars(<<"name">>), Chars(<<"name", ",", "password">>), Chars(<<" ">>)}

ReqOptions ==
    {Undefined}
    \cup {Options(ka, he, hf, FALSE) : ka \in ReqKeepAttrs, he \in BOOLEAN, hf \in BOOLEAN}

ReqSorts ==
    {Undefined,
     Arr(<<[field |-> "age", direction |-> Str("desc")]>>),
     Arr(<<[field |-> "age", direction |-> Undefined],
           [field |-> Inject, direction |-> Str("")]>>),
     Arr(<<[field |-> "age", direction |-> Str(Inject)]>>)}

LikeItem(field, search, caseFlag) ==
    [field |-> field, search |-> search, caseFlag |-> caseFlag]

Like(or, and) == [k |-> "object", v |-> [or |-> or, and |-> and]]

ReqLikes ==
    {Undefined,
     Like(Arr(<<LikeItem("name", "u%", FALSE), LikeItem("name", Inject, TRUE)>>), Undefined),
     Like(Undefined, Arr(<<LikeItem("name", Inject, FALSE)>>)),
     Like(Undefined, Undefined)}

ReqDocs ==
    {Obj(<<Entry("name", Str(Inject))>>),
     Obj(<<Entry("name", Str("u1")), Entry("_status", Str(Inject))>>),
     Obj(<<>>)}

ReqDirections == {Str("OUTBOUND"), Str("ANY"), Str(Inject)}

ReqDepths == {Num(0), Num(1), Num(2)}

\* the parameter objects, per operation
ReqParams(op) ==
    CASE op = "getOne" -> [_id : ReqIds, options : ReqOptions]
      [] op = "getOneByFilter" -> [filter : ReqFilters, options : ReqOptions]
      [] op = "getPage" ->
            [page_num : {Num(0), Num(2)}, page_size : {Num(2)}, filter : ReqFilters,
             like : ReqLikes, sorts : ReqSorts, options : {Undefined},
             offset : {Undefined, Num(0)}, count : {Undefined}]
      [] op = "save" -> [doc : ReqDocs]
      [] op = "update" ->
            [_id : ReqIds, newObj : ReqDocs,
             aqlOption : {Undefined, Obj(<<Entry("keepNull", Str(Inject))>>)}]
      [] op = "delete" -> [_id : ReqIds]
      [] op = "physicalDelete" -> [_id : ReqIds]
      [] op = "deletes" -> [_ids : {Arr(<<>>), Arr(<<Str("test/1"), Str(Inject)>>)}]
      [] op = "getVertices" ->
            [direction : ReqDirections, _id : ReqIds, v_filter : ReqFilters,
             e_filter : {Undefined, Obj(<<Entry("kind", Str(Inject))>>)},
             v_sorts : {Undefined}, e_sorts : ReqSorts, options : {Undefined}]
      [] op = "getGraphVertices" ->
            [direction : ReqDirections, start_id : ReqIds, depth : ReqDepths,
             v_filter : ReqFilters, e_filter : {Undefined},
             v_sorts : {Undefined}, e_sorts : {Undefined},
             options : {Undefined, Options(Undefined, FALSE, FALSE, TRUE)}]

Operations ==
    {"getOne", "getOneByFilter", "getPage", "save", "update", "delete",
     "physicalDelete", "deletes", "getVertices", "getGraphVertices"}

\* a collection without documents; no call made yet
EmptyColl == [key \in {} |-> Null]
NoRes == [k |-> "none"]
NoneDeleted == [key \in {"1", "2", "3", "4", "5", "6", "7", "8", "9"} |-> "no"]

\* the formatted moment() of the composition check
ComposeDate == "2020-01-01 00:00:00"

\* validateData of the operation: TRUE when the schema reports no error
Validates(ver, op, p) ==
    CASE op = "getOne" -> getOneSchema(ver, p)
      [] op = "getOneByFilter" -> getOneByFilterSchema(ver, p)
      [] op = "getPage" -> getPageSchema(ver, p)
      [] op = "save" -> saveSchema(ver, p.doc)
      [] op = "update" -> updateSchema(ver, p)
      [] op = "delete" -> deleteSchema(ver, p._id)
      [] op = "physicalDelete" -> deleteSchema(ver, p._id)
      [] op = "deletes" -> deletesSchema(ver, p._ids)
      [] op = "getVertices" -> getVerticesSchema(ver, p.direction, p)
      [] op = "getGraphVertices" -> getGraphVerticesSchema(ver, p.direction, p)

\* the query the operation composes from a validated parameter object
Composes(ver, op, p) ==
    CASE op = "getOne" -> getOneAql(ver, p)
      [] op = "getOneByFilter" -> getOneByFilterAql(ver, p)
      [] op = "getPage" -> getPageAql(ver, p)
      [] op = "save" -> saveAql(ver, p.doc, ComposeDate)
      [] op = "update" -> updateAql(ver, p, ComposeDate)
      [] op = "delete" -> deleteAql(ver, p._id)
      [] op = "physicalDelete" -> physicalDeleteAql(ver, p._id)
      [] op = "deletes" -> deletesAql(ver, p._ids)
      [] op = "getVertices" -> getVerticesAql(ver, p.direction, p)
      [] op = "getGraphVertices" -> getGraphVerticesAql(ver, p.direction, p)

InitAql ==
    /\ variant \in Variants
    /\ aqlOp \in Operations
    /\ aqlParams \in ReqParams(aqlOp)
    /\ aqlOutcome = "none"
    /\ aqlQuery = <<>>
    /\ coll = EmptyColl
    /\ nextKey = 1
    /\ deleted = NoneDeleted
    /\ edges = EmptyColl
    /\ trail = {}
    /\ res = NoRes

\* validateData throws a BizError: nothing is composed, nothing is issued
Reject ==
    /\ aqlOutcome = "none"
    /\ ~Validates(variant, aqlOp, aqlParams)
    /\ aqlOutcome' = "BizError"
    /\ UNCHANGED <<variant, aqlOp, aqlParams, aqlQuery, coll, nextKey, deleted, res, edges, trail>>

\* the input validates: the query is composed and handed to this.query
Issue ==
    /\ aqlOutcome = "none"
    /\ Validates(variant, aqlOp, aqlParams)
    /\ aqlOutcome' = "issued"
    /\ aqlQuery' = Composes(variant, aqlOp, aqlParams)
    /\ UNCHANGED <<variant, aqlOp, aqlParams, coll, nextKey, deleted, res, edges, trail>>

NextAql == Reject \/ Issue

SpecAql == InitAql /\ [][NextAql]_vars

-----------------------------------------------------------------------------
(* Properties of the composed query text *)

\* what the developer writes into the Dao: collection names, aliases,
\* function names, the result key, the LIKE flag
DeveloperLiterals ==
    {getCollectionName, getWithCollectionNames, "tests", "list", "t", "v", "e",
     "UNSET", "KEEP", ", true"}

\* the tokens a validated traversal may inline: a direction of the
\* allow-list and an integer depth or depth range
TraversalLiterals ==
    Directions
    \cup {ToString(d.v) : d \in ReqDepths}
    \cup {"1.." \o ToString(d.v) : d \in ReqDepths}

\* String(aqlOption) behind the OPTIONS keyword of update: never the
\* content of the request value
OptionsLiterals == {"OPTIONS undefined", "OPTIONS [object Object]"}

LiteralTokens(q) == {q[i].v : i \in {j \in 1..Len(q) : q[j].k = "literal"}}

\* C1: in every operation the text taken from the request is passed as a
\* bind parameter only; what is inlined as a literal is a developer-written
\* identifier, or a direction / integer depth that validation restricts.
C1_OnlyDeveloperTextIsInlined ==
    LiteralTokens(aqlQuery)
        \subseteq (DeveloperLiterals \cup TraversalLiterals \cup OptionsLiterals)

\* the filters an operation takes
FiltersOf(op, p) ==
    CASE op \in {"getOneByFilter", "getPage"} -> <<p.filter>>
      [] op \in {"getVertices", "getGraphVertices"} -> <<p.v_filter, p.e_filter>>
      [] OTHER -> <<>>

\* the opr strings of the {opr, value} entries of a filter
OprsOf(filter) ==
    IF ~IsObject(filter) THEN {}
    ELSE {Get(filter.v[i].val, "opr").v :
            i \in {j \in 1..Len(filter.v) :
                     IsObject(filter.v[j].val)
                     /\ Get(filter.v[j].val, "opr").k = "string"}}

UnsupportedOprs(op, p) ==
    UNION {OprsOf(FiltersOf(op, p)[i]) : i \in 1..Len(FiltersOf(op, p))}
    \ SupportedOprs

\* C3: a call whose filter holds an {opr, value} entry with an opr outside
\* the allow-list ends in the validation error, with no query composed and
\* the opr nowhere in the query text.
C3_UnsupportedOprIsRejected ==
    (variant = V2 /\ aqlOutcome # "none" /\ UnsupportedOprs(aqlOp, aqlParams) # {})
        => /\ aqlOutcome = "BizError"
           /\ aqlQuery = <<>>
           /\ LiteralTokens(aqlQuery) \cap UnsupportedOprs(aqlOp, aqlParams) = {}

-----------------------------------------------------------------------------
(* The database engine, as far as the queries of BaseDao use it.  A stored *)
(* document is a function from attribute names to values; a collection is  *)
(* a function from _key to document.                                       *)

\* doc.attr: a missing attribute reads as null
ATTR(doc, a) == IF a \in DOMAIN doc THEN doc[a] ELSE Null

\* the document of an object literal or of a bound object
DocOf(obj) ==
    [a \in {obj.v[i].key : i \in 1..Len(obj.v)} |-> Get(obj, a)]

UNSET(doc, attrs) == [a \in DOMAIN doc \ attrs |-> doc[a]]
KEEP(doc, attrs) == [a \in DOMAIN doc \cap attrs |-> doc[a]]
MERGE(d1, d2) ==
    [a \in DOMAIN d1 \cup DOMAIN d2 |-> IF a \in DOMAIN d2 THEN d2[a] ELSE d1[a]]

\* the names of a bound array of strings
NamesOf(arr) == {arr.v[i].v : i \in 1..Len(arr.v)}

\* "<collection>/<key>"
IdOf(coll_name, key) == Chars(<<coll_name, "/", key>>)

\* PARSE_IDENTIFIER(id): defined for "<collection>/<key>" only
IsIdentifier(id) == id.k = "chars" /\ Len(id.v) = 3 /\ id.v[2] = "/"
PARSE_IDENTIFIER(id) == [collection |-> id.v[1], key |-> id.v[3]]

\* the strings of the model in the order of the engine's string comparison
StringOrder ==
    <<"/", "1", "2", "2020-01-01 00:00:00", "3", "4", "5", "6", "7", "8", "9",
      "Al", "Bo", "al", "other", "test", "x", "y">>
StrIndex(str) == CHOOSE i \in 1..Len(StringOrder) : StringOrder[i] = str

\* the engine's order of value types: null < boolean < number < string
TypeRank(x) ==
    CASE x.k = "null" -> 0
      [] x.k = "boolean" -> 1
      [] x.k = "number" -> 2
      [] x.k \in {"string", "chars"} -> 3
      [] x.k = "array" -> 4
      [] OTHER -> 5

RECURSIVE PiecesLess(_, _)
PiecesLess(a, b) ==
    IF a = <<>> THEN b # <<>>
    ELSE IF b = <<>> THEN FALSE
    ELSE IF Head(a) = Head(b) THEN PiecesLess(Tail(a), Tail(b))
    ELSE StrIndex(Head(a)) < StrIndex(Head(b))

\* x < y in the engine's total order of the values the model stores
AqlLess(x, y) ==
    IF TypeRank(x) # TypeRank(y) THEN TypeRank(x) < TypeRank(y)
    ELSE CASE x.k = "boolean" -> ~x.v /\ y.v
           [] x.k = "number" -> x.v < y.v
           [] x.k = "string" -> StrIndex(x.v) < StrIndex(y.v)
           [] x.k = "chars" -> PiecesLess(x.v, y.v)
           [] OTHER -> FALSE

\* LIKE(text, search, caseInsensitive) on the strings of the model: % stands
\* for any run of characters
LIKE(text, search, caseInsensitive) ==
    /\ text.k = "string"
    /\ CASE search.v = "A%" ->
                 text.v = "Al" \/ (caseInsensitive /\ text.v = "al")
         [] search.v = "%o" -> text.v = "Bo"
         [] search.v = "%" -> TRUE
         [] OTHER -> text.v = search.v

-----------------------------------------------------------------------------
(* Evaluation of the FILTER lines of a composed query for one binding of   *)
(* the loop variables (env: alias -> document, p -> path).  The tokens are *)
(* read as the engine parses them: FILTER starts a statement, or binds     *)
(* weaker than and / &&.                                                   *)

RECURSIVE SplitAt(_, _, _, _)
SplitAt(q, seps, cur, acc) ==
    IF q = <<>> THEN Append(acc, cur)
    ELSE IF Head(q).k = "text" /\ Head(q).v \in seps
    THEN SplitAt(Tail(q), seps, <<>>, Append(acc, cur))
    ELSE SplitAt(Tail(q), seps, Append(cur, Head(q)), acc)

\* the statements of a FILTER section: what follows each FILTER keyword
Statements(cond) == Tail(SplitAt(cond, {"FILTER"}, <<>>, <<>>))
Disjuncts(statement) == SplitAt(statement, {"or"}, <<>>, <<>>)
Conjuncts(disjunct) == SplitAt(disjunct, {"and", "&&"}, <<>>, <<>>)

\* the comparison operators the engine knows, as the model evaluates them
EngineOprs == {"==", "!=", "<", "<=", ">", ">=", "IN", "in", "NOT IN", "LIKE"}

IsMember(x, arr) == arr.k = "array" /\ \E i \in 1..Len(arr.v) : arr.v[i] = x

Compare(opr, x, y) ==
    CASE opr = "==" -> x = y
      [] opr = "!=" -> x # y
      [] opr = "<" -> AqlLess(x, y)
      [] opr = "<=" -> AqlLess(x, y) \/ x = y
      [] opr = ">" -> AqlLess(y, x)
      [] opr = ">=" -> AqlLess(y, x) \/ x = y
      [] opr \in {"IN", "in"} -> IsMember(x, y)
      [] opr = "NOT IN" -> ~IsMember(x, y)
      [] opr = "LIKE" -> y.k = "string" /\ LIKE(x, y, FALSE)

\* the predicates the templates spell out in their text
StaticAtoms ==
    {"t._status == true", "v._status == true", "e._status == true", "e._status",
     "p.vertices[*]._status ALL == true", "p.edges[*]._status ALL == true"}

StaticHolds(text, env) ==
    CASE text = "t._status == true" -> ATTR(env.t, "_status") = Bool(TRUE)
      [] text = "v._status == true" -> ATTR(env.v, "_status") = Bool(TRUE)
      [] text = "e._status == true" -> ATTR(env.e, "_status") = Bool(TRUE)
      [] text = "e._status" -> Truthy(ATTR(env.e, "_status"))
      [] text = "p.vertices[*]._status ALL == true" ->
            \A i \in 1..Len(env.p.vertices) :
                ATTR(env.p.vertices[i], "_status") = Bool(TRUE)
      [] text = "p.edges[*]._status ALL == true" ->
            \A i \in 1..Len(env.p.edges) :
                ATTR(env.p.edges[i], "_status") = Bool(TRUE)

\* the shapes of one predicate
IsStatic(a) == Len(a) = 1 /\ a[1].k = "text" /\ a[1].v \in StaticAtoms
IsIdTest(a) == Len(a) = 2 /\ a[1].k = "text" /\ a[1].v = "t._id ==" /\ a[2].k = "bind"
IsComparison(a) ==
    /\ Len(a) = 5
    /\ a[1].k = "literal" /\ a[2].k = "text" /\ a[3].k = "bind" /\ a[5].k = "bind"
    /\ a[4].k \in {"text", "literal"} /\ a[4].v \in EngineOprs
IsPositionTest(a) ==
    /\ Len(a) = 5
    /\ a[1].k = "bind" /\ a[2].k = "text" /\ a[2].v = "in"
    /\ a[3].k = "literal" /\ a[5].k = "bind"
IsLikeCall(a) ==
    /\ Len(a) \in {7, 8}
    /\ a[1].k = "text" /\ a[1].v = "LIKE(" /\ a[2].k = "literal"

\* the engine parses the predicate
AtomParses(a) ==
    IsStatic(a) \/ IsIdTest(a) \/ IsComparison(a) \/ IsPositionTest(a) \/ IsLikeCall(a)

AtomHolds(a, env) ==
    IF IsStatic(a) THEN StaticHolds(a[1].v, env)
    ELSE IF IsIdTest(a) THEN ATTR(env.t, "_id") = a[2].v
    ELSE IF IsComparison(a)
    THEN Compare(a[4].v, ATTR(env[a[1].v], a[3].v.v), a[5].v)
    ELSE IF IsPositionTest(a)
    THEN IsMember(a[1].v, ATTR(env[a[3].v], a[5].v.v))
    ELSE LIKE(ATTR(env[a[2].v], a[4].v.v), a[6].v, Len(a) = 8)

\* every predicate of the FILTER section parses
FilterParses(cond) ==
    LET ss == Statements(cond) IN
    \A i \in 1..Len(ss) :
        LET ds == Disjuncts(ss[i]) IN
        \A j \in 1..Len(ds) :
            LET as == Conjuncts(ds[j]) IN
            \A n \in 1..Len(as) : AtomParses(as[n])

\* the binding passes every FILTER statement
FilterHolds(cond, env) ==
    LET ss == Statements(cond) IN
    \A i \in 1..Len(ss) :
        LET ds == Disjuncts(ss[i]) IN
        \E j \in 1..Len(ds) :
            LET as == Conjuncts(ds[j]) IN
            \A n \in 1..Len(as) : AtomHolds(as[n], env)

-----------------------------------------------------------------------------
(* Evaluation of the SORT line and of the RETURN expression *)

\* the sort keys of a SORT fragment: alias, attribute, descending
SortKeyOf(a) ==
    IF Len(a) = 2 /\ a[2].v = "._id"
    THEN [alias |-> a[1].v, field |-> "_id", desc |-> FALSE]
    ELSE IF Len(a) = 2 /\ a[2].v = "._create_date desc"
    THEN [alias |-> a[1].v, field |-> "_create_date", desc |-> TRUE]
    ELSE [alias |-> a[1].v, field |-> a[3].v.v,
          desc |-> a[4].v.k = "string" /\ a[4].v.v \in {"desc", "DESC"}]

SortKeys(sortAql) ==
    IF sortAql = <<>> THEN <<>>
    ELSE LET ks == SplitAt(Tail(sortAql), {","}, <<>>, <<>>)
         IN [i \in 1..Len(ks) |-> SortKeyOf(ks[i])]

\* env1 may stand before env2 under the sort keys from position i on
RECURSIVE SortLeq(_, _, _, _)
SortLeq(keys, i, env1, env2) ==
    IF i > Len(keys) THEN TRUE
    ELSE LET x == ATTR(env1[keys[i].alias], keys[i].field)
             y == ATTR(env2[keys[i].alias], keys[i].field)
         IN IF x = y THEN SortLeq(keys, i + 1, env1, env2)
            ELSE IF keys[i].desc THEN AqlLess(y, x) ELSE AqlLess(x, y)

\* the orders in which SORT may deliver the bindings: every arrangement
\* that respects the keys (the order of equal bindings is the engine's)
RECURSIVE Sorted(_, _)
Sorted(envs, keys) ==
    IF envs = {} THEN {<<>>}
    ELSE UNION {{<<m>> \o rest : rest \in Sorted(envs \ {m}, keys)} :
                  m \in {x \in envs : \A y \in envs : SortLeq(keys, 1, x, y)}}

\* the projection `func(doc, attrs)` of a RETURN expression
Projection(func, doc, attrs) ==
    IF func = "KEEP" THEN KEEP(doc, NamesOf(attrs)) ELSE UNSET(doc, NamesOf(attrs))

\* the value of the RETURN expression getResAql composed, for one binding
ReturnValue(resAql, env) ==
    IF resAql[1].k = "text" /\ resAql[1].v = "{ vertex:"
    THEN [vertex |-> Projection(resAql[2].v, env[resAql[4].v], resAql[6].v),
          edge |-> Projection(resAql[9].v, env.e, resAql[11].v)]
    ELSE IF resAql[1].k = "text" /\ resAql[1].v = "MERGE("
    THEN MERGE(Projection(resAql[2].v, env[resAql[4].v], resAql[6].v),
               [a \in {"_from", "_to"} |-> ATTR(env.e, a)])
    ELSE Projection(resAql[1].v, env[resAql[3].v], resAql[5].v)

\* the RETURN expression names the edge variable e
ReturnUsesEdge(resAql) ==
    resAql[1].k = "text" /\ resAql[1].v \in {"{ vertex:", "MERGE("}

-----------------------------------------------------------------------------
(* getPage against a collection *)

\* the largest number of stored documents
MaxRows == 3

KeyNames == <<"1", "2", "3", "4", "5", "6", "7", "8", "9">>
RowKeys(n) == {KeyNames[i] : i \in 1..n}

\* a stored document; _create_date stands for the formatted moment of its
\* save, 'YYYY-MM-DD HH:mm:ss', whose texts order as the moments do
StoredDoc(key, name, status, date) ==
    [_id |-> IdOf(getCollectionName, key), _key |-> Str(key),
     _status |-> Bool(status), _create_date |-> Str(date),
     name |-> Str(name), password |-> Str("other")]

DocShapes == [name : {"Al", "Bo"}, status : BOOLEAN, date : {"1", "2"}]

\* the collections of up to MaxRows documents
PageColls ==
    UNION {{[key \in RowKeys(n) |->
               StoredDoc(key, f[key].name, f[key].status, f[key].date)] :
              f \in [RowKeys(n) -> DocShapes]} : n \in 0..MaxRows}

\* filter and like of a page request
PageCriteria ==
    {[filter |-> Undefined, like |-> Undefined],
     [filter |-> Obj(<<Entry("name", Str("Al"))>>), like |-> Undefined],
     [filter |-> Obj(<<Entry("_create_date", Arr(<<Str("1"), Str("2")>>))>>),
      like |-> Like(Arr(<<LikeItem("name", "%o", FALSE)>>),
                    Arr(<<LikeItem("name", "%", FALSE)>>))]}

PageSorts == {Undefined, Arr(<<[field |-> "name", direction |-> Str("desc")]>>)}

PageParams ==
    {[page_num |-> pn, page_size |-> ps, filter |-> c.filter, like |-> c.like,
      sorts |-> so, options |-> Undefined, offset |-> Undefined, count |-> Undefined] :
       pn \in {Undefined, Num(0), Num(1), Num(2)}, ps \in {Num(1), Num(2)},
       c \in PageCriteria, so \in PageSorts}

BizError == [k |-> "BizError"]

Min(a, b) == IF a < b THEN a ELSE b

\* FOR tl IN ts LIMIT offset, count RETURN tl
LIMIT(ts, offset, count) ==
    IF offset >= Len(ts) THEN <<>>
    ELSE SubSeq(ts, offset + 1, Min(offset + count, Len(ts)))

\* FOR t IN collection <FILTER lines>: the bindings of t that pass
DocEnvs(cond, c) ==
    {[t |-> c[key]] : key \in {k \in DOMAIN c : FilterHolds(cond, [t |-> c[k]])}}

\* LIMIT offset, count with a negative value: the engine refuses the query
\* (LIMIT value is not a number or out of range)
LimitRefused(offset, count) == offset < 0 \/ count < 0

\* a page whose total was counted apart from its list, one record later
PageOfCountedApart(ver, ts, offset, count) ==
    LET totalCount == Len(ts) + 1
        flag == offset + count >= totalCount
    IN [k |-> "page", total_count |-> totalCount, has_more |-> ~flag,
        end |-> IF flag THEN totalCount ELSE offset + count,
        key |-> IF ver = V2 THEN "list" ELSE "tests",
        list |-> LIMIT(ts, offset, count)]

\* the final RETURN of the page query, for one order ts of the candidates
PageOf(ver, ts, offset, count) ==
    LET totalCount == Len(ts)
        flag == offset + count >= totalCount
    IN [k |-> "page", total_count |-> totalCount, has_more |-> ~flag,
        end |-> IF flag THEN totalCount ELSE offset + count,
        key |-> IF ver = V2 THEN "list" ELSE "tests",
        list |-> LIMIT(ts, offset, count)]

\* what the query of getPage may return on collection c, or the BizError
\* this.query makes of an engine error
getPageResults(ver, p, c) ==
    LET cond == DocFilterAql(ver, p)
        keys == SortKeys(getSortAql(ver, getSortFieldAqlList(ver, p.sorts, "")))
        resAql == getResAql(ver, p.options, "")
        offset == convertOffset(p.page_num.v, p.page_size.v)
    IN IF ~FilterParses(cond) \/ ReturnUsesEdge(resAql)
          \/ LimitRefused(offset, p.page_size.v)
       THEN {BizError}
       ELSE {PageOf(ver, [i \in 1..Len(o) |-> ReturnValue(resAql, o[i])],
                    offset, p.page_size.v) :
               o \in Sorted(DocEnvs(cond, c), keys)}

InitPage ==
    /\ variant \in Variants
    /\ aqlOp = "getPage"
    /\ aqlParams \in PageParams
    /\ aqlOutcome = "none"
    /\ aqlQuery = <<>>
    /\ coll \in PageColls
    /\ nextKey = Cardinality(DOMAIN coll) + 1
    /\ deleted = NoneDeleted
    /\ edges = EmptyColl
    /\ trail = {}
    /\ res = NoRes

\* getPage(_params)
getPage ==
    /\ aqlOp = "getPage" /\ aqlOutcome = "none"
    /\ IF ~getPageSchema(variant, aqlParams)
       THEN /\ aqlOutcome' = "BizError"
            /\ res' = BizError
            /\ UNCHANGED <<aqlParams, aqlQuery>>
       ELSE /\ aqlOutcome' = "issued"
            /\ aqlParams' =
                 [aqlParams EXCEPT
                    !.offset = Num(convertOffset(aqlParams.page_num.v, aqlParams.page_size.v)),
                    !.count = aqlParams.page_size]
            /\ aqlQuery' = getPageAql(variant, aqlParams)
            /\ res' \in getPageResults(variant, aqlParams, coll)
    /\ UNCHANGED <<variant, aqlOp, coll, nextKey, deleted, edges, trail>>

NextPage == getPage

SpecPage == InitPage /\ [][NextPage]_vars

-----------------------------------------------------------------------------
(* Properties of getPage *)

\* C5: for page_num >= 1 and page_size >= 1 and every total count T of the
\* candidate set, the query runs with offset = (page_num - 1) * page_size and
\* limit = page_size, and answers end = min(offset + page_size, T) and
\* has_more = (offset + page_size < T).
C5_PageArithmetic ==
    (aqlOp = "getPage" /\ res.k = "page"
       /\ aqlParams.page_num.v >= 1 /\ aqlParams.page_size.v >= 1) =>
        LET page_num == aqlParams.page_num.v
            page_size == aqlParams.page_size.v
            offset == (page_num - 1) * page_size
            total == res.total_count
        IN /\ aqlParams.offset = Num(offset)
           /\ aqlParams.count = Num(page_size)
           /\ res.end = Min(offset + page_size, total)
           /\ res.has_more = (offset + page_size < total)

\* a page behind the first one, with more records behind it
C5_Witness ==
    /\ aqlOp = "getPage" /\ res.k = "page"
    /\ aqlParams.page_num.v = 2 /\ aqlParams.offset.v >= 1
    /\ res.has_more /\ res.end < res.total_count

\* the record is active and matches the filter and the like of the request
PageMatches(doc, p) ==
    /\ doc["_status"] = Bool(TRUE)
    /\ Truthy(p.filter) =>
          \A i \in 1..Len(p.filter.v) :
              LET e == p.filter.v[i] IN
              IF IsArray(e.val) THEN IsMember(ATTR(doc, e.key), e.val)
              ELSE ATTR(doc, e.key) = e.val
    /\ (Truthy(p.like) /\ Truthy(p.like.v.or)) =>
          \E i \in 1..Len(p.like.v.or.v) :
              LIKE(ATTR(doc, p.like.v.or.v[i].field), Str(p.like.v.or.v[i].search), FALSE)
    /\ (Truthy(p.like) /\ Truthy(p.like.v.and)) =>
          \A i \in 1..Len(p.like.v.and.v) :
              LIKE(ATTR(doc, p.like.v.and.v[i].field), Str(p.like.v.and.v[i].search), FALSE)

\* d1 stands strictly before d2 under the requested sorts, from entry i on
RECURSIVE SortsBefore(_, _, _, _)
SortsBefore(sorts, i, d1, d2) ==
    IF i > Len(sorts) THEN FALSE
    ELSE LET x == ATTR(d1, sorts[i].field)
             y == ATTR(d2, sorts[i].field)
         IN IF x = y THEN SortsBefore(sorts, i + 1, d1, d2)
            ELSE IF sorts[i].direction \in {Str("desc"), Str("DESC")}
            THEN AqlLess(y, x) ELSE AqlLess(x, y)

\* every arrangement of a set of keys
RECURSIVE Orders(_)
Orders(S) ==
    IF S = {} THEN {<<>>}
    ELSE UNION {{<<k>> \o rest : rest \in Orders(S \ {k})} : k \in S}

\* C6: the items of a page are exactly the elements at positions
\* offset .. min(offset + page_size, T) - 1 of the list of all active records
\* that match filter and like, ordered by sorts; total_count is the length T
\* of that whole list.
C6_PageIsSliceOfCandidates ==
    (aqlOp = "getPage" /\ res.k = "page") =>
        LET p == aqlParams
            candidates == {key \in DOMAIN coll : PageMatches(coll[key], p)}
            total == Cardinality(candidates)
            offset == p.offset.v
            end == Min(offset + p.page_size.v, total)
            size == IF end > offset THEN end - offset ELSE 0
        IN /\ res.total_count = total
           /\ Len(res.list) = size
           /\ \E order \in Orders(candidates) :
                 /\ Truthy(p.sorts) =>
                       \A i, j \in 1..total :
                           i < j => ~SortsBefore(p.sorts.v, 1, coll[order[j]], coll[order[i]])
                 /\ \A i \in 1..size :
                       LET item == res.list[i]
                           doc == coll[order[offset + i]]
                       IN /\ ATTR(item, "_id") = doc["_id"]
                          /\ \A a \in DOMAIN item : item[a] = doc[a]

\* a page of one item cut out of fewer candidates than stored records,
\* with more behind it
C6_Witness ==
    /\ aqlOp = "getPage" /\ res.k = "page"
    /\ Truthy(aqlParams.filter) /\ Truthy(aqlParams.sorts)
    /\ Len(res.list) = 1 /\ res.has_more
    /\ res.total_count < Cardinality(DOMAIN coll)

-----------------------------------------------------------------------------
(* The write statements of the engine *)

\* INSERT doc INTO collection: the engine assigns _key and _id
INSERT(c, key, doc) ==
    [k \in DOMAIN c \cup {key} |->
       IF k = key
       THEN MERGE(doc, [_key |-> Str(key), _id |-> IdOf(getCollectionName, key)])
       ELSE c[k]]

\* UPDATE key WITH patch IN collection
UPDATE(c, key, patch) == [c EXCEPT ![key] = MERGE(c[key], patch)]

\* REMOVE key IN collection
REMOVE(c, key) == [k \in DOMAIN c \ {key} |-> c[k]]

\* LET key = PARSE_IDENTIFIER(id).key, then a statement on key: the engine
\* finds a document to work on
KeyFound(c, id) == IsIdentifier(id) /\ PARSE_IDENTIFIER(id).key \in DOMAIN c

\* what follows OPTIONS has to be an object expression of the query language
AqlObjectTexts == {"{}", "{ keepNull: false }"}

\* a payload that drops what the caller supplied
PayloadOfExtraOnly(doc, extra) == extra

\* a payload that lets the caller's _status through
PayloadKeepingStatus(doc, extra) ==
    MERGE(UNSET(DocOf(doc), Range(unset) \ {"_status"}), extra)

\* MERGE(UNSET(doc, this.unset), extra)
Payload(doc, extra) == MERGE(UNSET(DocOf(doc), Range(unset)), extra)

\* FOR t IN ids ... UPDATE key WITH { _status: false }: one after the other
RECURSIVE SoftDeleteAll(_, _)
SoftDeleteAll(c, ids) ==
    IF ids = <<>> THEN c
    ELSE SoftDeleteAll(UPDATE(c, PARSE_IDENTIFIER(Head(ids)).key, [_status |-> Bool(FALSE)]),
                       Tail(ids))

-----------------------------------------------------------------------------
(* The operations of BaseDao on one document collection *)

\* the largest number of documents save may create
MaxDocs == 2

ReturnedId(id) == [k |-> "id", _id |-> id]
ReturnedIds(ids) == [k |-> "ids", _ids |-> ids]
ReturnedNull == [k |-> "null"]
ReturnedDoc(doc) == [k |-> "doc", v |-> doc]

\* { [this.getLowerCollectionName()]: value }
Keyed(value) == [k |-> "keyed", key |-> getCollectionName, v |-> value]

\* what a single-result read returns for the value of convertArrayToObject:
\* the value itself, in app/dao/base.js the value under the collection's name
Returned(ver, value) == IF ver = V1 THEN Keyed(value) ELSE value

\* the record or null a single-result read has returned
RecordOf(r) == IF r.k = "keyed" THEN r.v ELSE r

\* the request data of the calls
SaveDocs ==
    {Obj(<<Entry("name", Str("Al"))>>),
     Obj(<<Entry("name", Str("Bo")), Entry("password", Str("other"))>>),
     Obj(<<Entry("name", Str("Al")), Entry("_status", Bool(FALSE)),
           Entry("_key", Str("9"))>>),
     Obj(<<>>)}

CallIds ==
    {IdOf(getCollectionName, key) : key \in RowKeys(MaxDocs)}
    \cup {IdOf("other", "1"), Str("1"), Str("")}

UpdateObjs == {Obj(<<Entry("name", Str("Bo")), Entry("_status", Bool(TRUE))>>), Obj(<<>>)}

GetOptions ==
    {Undefined,
     Options(Chars(<<"name", ",", "password">>), FALSE, FALSE, FALSE),
     Options(Chars(<<"password">>), FALSE, FALSE, FALSE),
     Options(Undefined, TRUE, FALSE, FALSE)}

DeletesIds ==
    {Arr(<<>>), Arr(<<IdOf(getCollectionName, "1")>>),
     Arr(<<IdOf(getCollectionName, "2"), IdOf(getCollectionName, "1")>>),
     Arr(<<IdOf(getCollectionName, "1"), IdOf(getCollectionName, "3")>>),
     Arr(<<IdOf(getCollectionName, "1"), Str("1")>>)}

\* the call is noted: operation, parameters, query text
Called(op, p, outcome, query) ==
    /\ aqlOp' = op
    /\ aqlParams' = p
    /\ aqlOutcome' = outcome
    /\ aqlQuery' = query

Init ==
    /\ variant \in Variants
    /\ aqlOp = "none"
    /\ aqlParams = Undefined
    /\ aqlOutcome = "none"
    /\ aqlQuery = <<>>
    /\ coll = EmptyColl
    /\ nextKey = 1
    /\ deleted = NoneDeleted
    /\ edges = EmptyColl
    /\ trail = {}
    /\ res = NoRes

\* save(doc)
save(doc) ==
    IF ~saveSchema(variant, doc)
    THEN /\ Called("save", [doc |-> doc], "BizError", <<>>)
         /\ res' = BizError
         /\ UNCHANGED <<variant, coll, nextKey, deleted, edges, trail>>
    ELSE /\ nextKey <= MaxDocs
         /\ Called("save", [doc |-> doc], "issued", saveAql(variant, doc, ComposeDate))
         /\ coll' = INSERT(coll, KeyNames[nextKey],
                           Payload(doc, [_create_date |-> Str(ComposeDate),
                                         _status |-> Bool(TRUE)]))
         /\ nextKey' = nextKey + 1
         /\ res' = ReturnedId(IdOf(getCollectionName, KeyNames[nextKey]))
         /\ UNCHANGED <<variant, deleted, edges, trail>>

\* update(_params)
update(p) ==
    LET patch == Payload(p.newObj, [_update_date |-> Str(ComposeDate)])
        hits == {key \in DOMAIN coll :
                   FilterHolds(updateFilter(p), [t |-> coll[key]])}
    IN
    IF ~updateSchema(variant, p)
    THEN /\ Called("update", p, "BizError", <<>>)
         /\ res' = BizError
         /\ UNCHANGED <<variant, coll, nextKey, deleted, edges, trail>>
    ELSE /\ Called("update", p, "issued", updateAql(variant, p, ComposeDate))
         /\ IF variant = V2
            THEN IF TemplateText(p.aqlOption) \notin AqlObjectTexts
                 THEN res' = BizError /\ UNCHANGED coll
                 ELSE /\ coll' = [key \in DOMAIN coll |->
                                    IF key \in hits THEN MERGE(coll[key], patch)
                                    ELSE coll[key]]
                      /\ res' = IF Cardinality(hits) = 1
                                THEN ReturnedId(coll[CHOOSE key \in hits : TRUE]["_id"])
                                ELSE BizError
            ELSE IF ~KeyFound(coll, p._id)
                 THEN res' = BizError /\ UNCHANGED coll
                 ELSE /\ coll' = UPDATE(coll, PARSE_IDENTIFIER(p._id).key, patch)
                      /\ res' = ReturnedId(coll[PARSE_IDENTIFIER(p._id).key]["_id"])
         /\ UNCHANGED <<variant, nextKey, deleted, edges, trail>>

\* delete(_id)
delete(_id) ==
    IF ~deleteSchema(variant, _id)
    THEN /\ Called("delete", [_id |-> _id], "BizError", <<>>)
         /\ res' = BizError
         /\ UNCHANGED <<variant, coll, nextKey, deleted, edges, trail>>
    ELSE /\ Called("delete", [_id |-> _id], "issued", deleteAql(variant, _id))
         /\ IF ~KeyFound(coll, _id)
            THEN res' = BizError /\ UNCHANGED <<coll, deleted>>
            ELSE /\ coll' = UPDATE(coll, PARSE_IDENTIFIER(_id).key, [_status |-> Bool(FALSE)])
                 /\ res' = ReturnedId(coll[PARSE_IDENTIFIER(_id).key]["_id"])
                 /\ deleted' = [deleted EXCEPT ![PARSE_IDENTIFIER(_id).key] =
                                   IF @ = "no" THEN "once" ELSE "again"]
         /\ UNCHANGED <<variant, nextKey, edges, trail>>

\* physicalDelete(_id)
physicalDelete(_id) ==
    IF ~deleteSchema(variant, _id)
    THEN /\ Called("physicalDelete", [_id |-> _id], "BizError", <<>>)
         /\ res' = BizError
         /\ UNCHANGED <<variant, coll, nextKey, deleted, edges, trail>>
    ELSE /\ Called("physicalDelete", [_id |-> _id], "issued", physicalDeleteAql(variant, _id))
         /\ IF ~KeyFound(coll, _id)
            THEN res' = BizError /\ UNCHANGED coll
            ELSE /\ coll' = REMOVE(coll, PARSE_IDENTIFIER(_id).key)
                 /\ res' = ReturnedId(coll[PARSE_IDENTIFIER(_id).key]["_id"])
         /\ UNCHANGED <<variant, nextKey, deleted, edges, trail>>

\* deletes(_ids)
deletes(_ids) ==
    IF ~deletesSchema(variant, _ids)
    THEN /\ Called("deletes", [_ids |-> _ids], "BizError", <<>>)
         /\ res' = BizError
         /\ UNCHANGED <<variant, coll, nextKey, deleted, edges, trail>>
    ELSE /\ Called("deletes", [_ids |-> _ids], "issued", deletesAql(variant, _ids))
         /\ IF \E i \in 1..Len(_ids.v) : ~KeyFound(coll, _ids.v[i])
            THEN res' = BizError /\ UNCHANGED coll
            ELSE /\ coll' = SoftDeleteAll(coll, _ids.v)
                 /\ res' = ReturnedIds([i \in 1..Len(_ids.v) |->
                                          coll[PARSE_IDENTIFIER(_ids.v[i]).key]["_id"]])
         /\ UNCHANGED <<variant, nextKey, deleted, edges, trail>>

\* what the query of getOne returns on collection c: the list of the
\* projected documents, in any order, or the engine's error
getOneResults(ver, p, c) ==
    LET resAql == getResAql(ver, p.options, "")
        hits == DocEnvs(getOneFilter(p), c)
    IN IF ~FilterParses(getOneFilter(p)) \/ ReturnUsesEdge(resAql) THEN {BizError}
       ELSE {IF Len(o) > 1 THEN BizError
             ELSE IF Len(o) = 0 THEN Returned(ver, ReturnedNull)
             ELSE Returned(ver, ReturnedDoc(ReturnValue(resAql, o[1]))) :
               o \in Sorted(hits, <<>>)}

\* getOne(_params)
getOne(p) ==
    /\ IF ~getOneSchema(variant, p)
       THEN /\ Called("getOne", p, "BizError", <<>>)
            /\ res' = BizError
       ELSE /\ Called("getOne", p, "issued", getOneAql(variant, p))
            /\ res' \in getOneResults(variant, p, coll)
    /\ UNCHANGED <<variant, coll, nextKey, deleted, edges, trail>>

Next ==
    \/ \E doc \in SaveDocs : save(doc)
    \/ \E _id \in CallIds, newObj \in UpdateObjs :
          update([_id |-> _id, newObj |-> newObj, aqlOption |-> Undefined])
    \/ \E _id \in CallIds : delete(_id)
    \/ \E _id \in CallIds : physicalDelete(_id)
    \/ \E _ids \in DeletesIds :
          deletes(_ids)
    \/ \E _id \in CallIds, options \in GetOptions :
          getOne([_id |-> _id, options |-> options])

Spec == Init /\ [][Next]_vars

-----------------------------------------------------------------------------
(* Properties of the operations on one collection *)

\* the _key a getOne on this id can match: the id names this collection
OwnKey(id) ==
    IF IsIdentifier(id) /\ PARSE_IDENTIFIER(id).collection = getCollectionName
    THEN {PARSE_IDENTIFIER(id).key} ELSE {}

\* C8: soft-delete is idempotent.  Once delete(id) has succeeded, the record
\* stays soft-deleted whatever number of further delete(id) calls follow (it
\* is never active again), and getOne(id) returns no active record.
C8_SoftDeleteIsIdempotent ==
    /\ \A key \in DOMAIN coll :
          deleted[key] # "no" => coll[key]["_status"] = Bool(FALSE)
    /\ (aqlOp = "getOne" /\ aqlOutcome = "issued"
          /\ \E key \in OwnKey(aqlParams._id) : deleted[key] # "no")
       => RecordOf(res).k # "doc"

\* delete has succeeded on the record twice or more, and getOne on its id
\* answers null
C8_Witness ==
    /\ aqlOp = "getOne" /\ RecordOf(res) = ReturnedNull
    /\ \E key \in OwnKey(aqlParams._id) :
          deleted[key] = "again" /\ key \in DOMAIN coll

\* the ids a delete / deletes call names
TargetIds(op, p) ==
    IF op = "delete" THEN {p._id}
    ELSE IF op = "deletes" /\ IsArray(p._ids) THEN Range(p._ids.v)
    ELSE {}

\* C9: delete(id) and deletes(ids) keep the targeted records in the collection
\* and change only their _status, to false; every other attribute and every
\* other record is unchanged.  Only physicalDelete(id) removes a record, and it
\* removes exactly the record with that id.
C9_DeleteFrame ==
    [][/\ aqlOp' \in {"delete", "deletes"} =>
            /\ DOMAIN coll' = DOMAIN coll
            /\ \A key \in DOMAIN coll :
                  \/ coll'[key] = coll[key]
                  \/ /\ coll[key]["_id"] \in TargetIds(aqlOp', aqlParams')
                     /\ coll'[key] = [coll[key] EXCEPT !["_status"] = Bool(FALSE)]
       /\ DOMAIN coll' # DOMAIN coll /\ DOMAIN coll' \subseteq DOMAIN coll =>
            /\ aqlOp' = "physicalDelete"
            /\ \E key \in DOMAIN coll :
                  /\ coll[key]["_id"] = aqlParams'._id
                  /\ DOMAIN coll' = DOMAIN coll \ {key}
                  /\ \A other \in DOMAIN coll' : coll'[other] = coll[other]
      ]_vars

\* the fields of a saved document d that are neither stripped from the
\* payload (this.unset) nor excluded from every response (this.unsetRes)
SuppliedFields(ver, d) ==
    {d.v[i].key : i \in 1..Len(d.v)} \ (Range(unset) \cup Range(unsetRes(ver)))

\* the step is a getOne on the _id the save before it returned, with
\* options that carry at most keepAttrs
IsRoundTrip ==
    /\ aqlOp = "save" /\ res.k = "id"
    /\ aqlOp' = "getOne" /\ aqlParams'._id = res._id
    /\ Truthy(aqlParams'.options) => ~aqlParams'.options.v.hasEdge

\* the claim as stated: getOne yields a record that equals d on every
\* caller-supplied non-protected field and has no excluded attribute,
\* whatever keepAttrs is requested
C10_RoundTripAsStated ==
    [][IsRoundTrip =>
         /\ RecordOf(res').k = "doc"
         /\ \A a \in SuppliedFields(variant, aqlParams.doc) :
               /\ a \in DOMAIN RecordOf(res').v
               /\ RecordOf(res').v[a] = Get(aqlParams.doc, a)
         /\ DOMAIN RecordOf(res').v \cap Range(unsetRes(variant)) = {}
      ]_vars

\* the names keepAttrs lists, all names when keepAttrs is absent or blank
Requested(options, a) ==
    HasKeepAttrs(options) => a \in Range(SplitComma(options.v.keepAttrs.v, "", <<>>))

\* C10: round trip.  For every document d accepted by save, getOne on the
\* returned _id yields a record that equals d on every caller-supplied
\* non-protected field that keepAttrs retains (on all of them when keepAttrs
\* is absent), holds no other caller-supplied field, and contains none of
\* the default-excluded attributes whatever keepAttrs is requested.
C10_RoundTrip ==
    [][IsRoundTrip =>
         /\ RecordOf(res').k = "doc"
         /\ \A a \in SuppliedFields(variant, aqlParams.doc) :
               IF Requested(aqlParams'.options, a)
               THEN /\ a \in DOMAIN RecordOf(res').v
                    /\ RecordOf(res').v[a] = Get(aqlParams.doc, a)
               ELSE a \notin DOMAIN RecordOf(res').v
         /\ DOMAIN RecordOf(res').v \cap Range(unsetRes(variant)) = {}
      ]_vars

\* getOne has returned a saved, never updated document with password under
\* a keepAttrs that names password next to a supplied field
C10_Witness ==
    /\ aqlOp = "getOne" /\ RecordOf(res).k = "doc"
    /\ HasKeepAttrs(aqlParams.options)
    /\ "name" \in DOMAIN RecordOf(res).v
    /\ \E key \in OwnKey(aqlParams._id) :
          /\ "password" \in DOMAIN coll[key]
          /\ "_update_date" \notin DOMAIN coll[key]

-----------------------------------------------------------------------------
(* Graph traversal of the engine: FOR v, e, p IN min..max direction start.  *)
(* V: the vertex collection, E: the edge collection.  A path uses no edge   *)
(* twice (the engine's default uniqueEdges: "path"); vertices may repeat.   *)

\* the vertex with this _id, null when the collection has none
VertexOf(V, id) ==
    IF \E key \in DOMAIN V : V[key]["_id"] = id
    THEN V[CHOOSE key \in DOMAIN V : V[key]["_id"] = id]
    ELSE Null

\* the _id at the far end of edge e when it is left from vertex id, as a set:
\* empty when the direction does not allow the step
FarEnd(direction, e, id) ==
    (IF direction \in {"OUTBOUND", "ANY"} /\ e["_from"] = id THEN {e["_to"]} ELSE {})
    \cup (IF direction \in {"INBOUND", "ANY"} /\ e["_to"] = id THEN {e["_from"]} ELSE {})

\* the paths of exactly n edges from start: each a record of the vertex ids
\* passed and the edge keys used
RECURSIVE PathsOfLength(_, _, _, _)
PathsOfLength(direction, E, start, n) ==
    IF n = 0 THEN {[ids |-> <<start>>, keys |-> <<>>]}
    ELSE UNION {{[ids |-> Append(q.ids, far), keys |-> Append(q.keys, key)] :
                   far \in FarEnd(direction, E[key], q.ids[Len(q.ids)])} :
                 <<q, key>> \in
                   {<<q2, key2>> \in PathsOfLength(direction, E, start, n - 1) \X DOMAIN E :
                       key2 \notin Range(q2.keys)}}

\* the binding of v, e, p for one path
PathEnv(V, E, q) ==
    LET vertices == [i \in 1..Len(q.ids) |-> VertexOf(V, q.ids[i])]
        pathEdges == [i \in 1..Len(q.keys) |-> E[q.keys[i]]]
    IN [v |-> vertices[Len(vertices)],
        e |-> IF pathEdges = <<>> THEN Null ELSE pathEdges[Len(pathEdges)],
        p |-> [vertices |-> vertices, edges |-> pathEdges]]

\* the bindings of a traversal of depth min..max
Traversal(V, E, direction, start, min, max) ==
    UNION {{PathEnv(V, E, q) : q \in PathsOfLength(direction, E, start, n)} :
             n \in min..max}

-----------------------------------------------------------------------------
(* The read operations on a graph: the Dao's collection holds the edges,   *)
(* the collection getWithCollectionNames names holds the vertices.         *)

\* the deepest traversal requested
MaxDepth == 2

\* the depth range a depth literal stands for: "d" or "1..d"
DepthRangeOf(text) ==
    IF \E d \in 0..(MaxDepth + 1) : text = ToString(d)
    THEN LET d == CHOOSE d \in 0..(MaxDepth + 1) : text = ToString(d)
         IN [min |-> d, max |-> d]
    ELSE LET d == CHOOSE d \in 0..(MaxDepth + 1) : text = "1.." \o ToString(d)
         IN [min |-> 1, max |-> d]

\* a stored edge
StoredEdge(key, from, to, status) ==
    [_id |-> IdOf(getCollectionName, key), _key |-> Str(key),
     _from |-> IdOf(getWithCollectionNames, from), _to |-> IdOf(getWithCollectionNames, to),
     _status |-> Bool(status), _create_date |-> Str("1"), password |-> Str("other")]

\* the vertex collections: three vertices saved one after the other, each
\* active or soft-deleted
GraphVertices ==
    {[key \in {"1", "2", "3"} |-> StoredDoc(key, "Al", f[key], key)] :
       f \in [{"1", "2", "3"} -> BOOLEAN]}

\* the edge collections: 1 -> 2, 2 -> 3 and 1 -> 3, each absent, active or
\* soft-deleted
EdgeEnds ==
    [key \in {"4", "5", "6"} |->
       CASE key = "4" -> <<"1", "2">>
         [] key = "5" -> <<"2", "3">>
         [] key = "6" -> <<"1", "3">>]

GraphEdges ==
    UNION {{[key \in keys |-> StoredEdge(key, EdgeEnds[key][1], EdgeEnds[key][2], f[key])] :
              f \in [keys -> BOOLEAN]} : keys \in SUBSET DOMAIN EdgeEnds}

ReadOptions ==
    {Undefined,
     Options(Undefined, TRUE, FALSE, FALSE),
     Options(Undefined, FALSE, TRUE, FALSE),
     Options(Undefined, FALSE, FALSE, TRUE),
     Options(Chars(<<"name", ",", "password", ",", "_status">>), FALSE, FALSE, FALSE),
     Options(Chars(<<"_id", ",", "_key", ",", "password">>), TRUE, FALSE, FALSE),
     Options(Chars(<<"_rev", ",", "password">>), FALSE, TRUE, FALSE)}

ReadParams(op) ==
    CASE op = "getGraphVertices" ->
            [direction : {Str(d) : d \in Directions},
             start_id : {IdOf(getWithCollectionNames, "1")},
             depth : {Num(d) : d \in 0..MaxDepth},
             v_filter : {Undefined}, e_filter : {Undefined},
             v_sorts : {Undefined}, e_sorts : {Undefined}, options : ReadOptions]
      [] op = "getVertices" ->
            [direction : {Str(d) : d \in Directions},
             _id : {IdOf(getWithCollectionNames, "1")},
             v_filter : {Undefined}, e_filter : {Undefined},
             v_sorts : {Undefined}, e_sorts : {Undefined}, options : ReadOptions]
      [] op = "getOne" ->
            [_id : {IdOf(getWithCollectionNames, "1")}, options : ReadOptions]

ReturnedList(ver, list) ==
    [k |-> "list", key |-> IF ver = V2 THEN "tsl" ELSE "tests", list |-> list]

\* what a traversal query returns: the RETURN values of the bindings that
\* pass the FILTER lines, in an order the SORT line allows
TraversalResults(ver, cond, sortAql, resAql, envs) ==
    IF ~FilterParses(cond) THEN {BizError}
    ELSE {ReturnedList(ver, [i \in 1..Len(o) |-> ReturnValue(resAql, o[i])]) :
            o \in Sorted({env \in envs : FilterHolds(cond, env)}, SortKeys(sortAql))}

getGraphVerticesResults(ver, direction, p, V, E) ==
    LET range == DepthRangeOf(DepthText(ver, p)) IN
    TraversalResults(ver, getGraphVerticesFilter(ver, p), EdgeSortAql(ver, p),
                     getResAql(ver, p.options, "v"),
                     Traversal(V, E, direction.v, p.start_id, range.min, range.max))

getVerticesResults(ver, direction, p, V, E) ==
    TraversalResults(ver, getVerticesFilter(ver, p), EdgeSortAql(ver, p),
                     getResAql(ver, p.options, "v"),
                     Traversal(V, E, direction.v, p._id, 1, 1))

InitRead ==
    /\ variant \in Variants
    /\ aqlOp \in {"getGraphVertices", "getVertices", "getOne"}
    /\ aqlParams \in ReadParams(aqlOp)
    /\ aqlOutcome = "none"
    /\ aqlQuery = <<>>
    /\ coll \in GraphVertices
    /\ edges \in GraphEdges
    /\ trail = {}
    /\ nextKey = 1
    /\ deleted = NoneDeleted
    /\ res = NoRes

\* getGraphVertices(direction, _params)
getGraphVertices ==
    /\ aqlOp = "getGraphVertices" /\ aqlOutcome = "none"
    /\ IF ~getGraphVerticesSchema(variant, aqlParams.direction, aqlParams)
       THEN aqlOutcome' = "BizError" /\ res' = BizError /\ UNCHANGED aqlQuery
       ELSE /\ aqlOutcome' = "issued"
            /\ aqlQuery' = getGraphVerticesAql(variant, aqlParams.direction, aqlParams)
            /\ res' \in getGraphVerticesResults(variant, aqlParams.direction, aqlParams,
                                                coll, edges)
    /\ UNCHANGED <<variant, aqlOp, aqlParams, coll, edges, trail, nextKey, deleted>>

\* getVertices(direction, _params)
getVertices ==
    /\ aqlOp = "getVertices" /\ aqlOutcome = "none"
    /\ IF ~getVerticesSchema(variant, aqlParams.direction, aqlParams)
       THEN aqlOutcome' = "BizError" /\ res' = BizError /\ UNCHANGED aqlQuery
       ELSE /\ aqlOutcome' = "issued"
            /\ aqlQuery' = getVerticesAql(variant, aqlParams.direction, aqlParams)
            /\ res' \in getVerticesResults(variant, aqlParams.direction, aqlParams,
                                           coll, edges)
    /\ UNCHANGED <<variant, aqlOp, aqlParams, coll, edges, trail, nextKey, deleted>>

\* getOne(_params) on the vertex collection
getOneVertex ==
    /\ aqlOp = "getOne" /\ aqlOutcome = "none"
    /\ getOne(aqlParams)

NextRead == getGraphVertices \/ getVertices \/ getOneVertex

SpecRead == InitRead /\ [][NextRead]_vars

-----------------------------------------------------------------------------
(* Properties of the read operations *)

\* no attribute of the default excluded set is in the projection
ExcludedFree(ver, x) == DOMAIN x \cap Range(unsetRes(ver)) = {}

\* one returned item: a projection, or a pair of a vertex and an edge
\* projection
ItemIsClean(ver, item) ==
    IF DOMAIN item = {"vertex", "edge"}
    THEN ExcludedFree(ver, item.vertex) /\ ExcludedFree(ver, item.edge)
    ELSE ExcludedFree(ver, item)

\* C2: whatever the options (any keepAttrs, with or without hasEdge and
\* hasFromTo), no vertex or edge projection a read operation returns holds
\* an attribute of the default excluded set unsetRes, even when keepAttrs
\* names it.
C2_ExcludedNeverReturned ==
    /\ res.k = "list" => \A i \in 1..Len(res.list) : ItemIsClean(variant, res.list[i])
    /\ RecordOf(res).k = "doc" => ItemIsClean(variant, RecordOf(res).v)

\* a traversal has returned vertex and edge projections under a keepAttrs
\* that names _key and password
C2_Witness ==
    /\ res.k = "list" /\ Len(res.list) > 0
    /\ HasKeepAttrs(aqlParams.options) /\ aqlParams.options.v.hasEdge
    /\ "password" \in Range(SplitComma(aqlParams.options.v.keepAttrs.v, "", <<>>))
    /\ \A i \in 1..Len(res.list) :
          DOMAIN res.list[i].vertex = {"_id"} /\ DOMAIN res.list[i].edge = {"_id"}

\* no vertex and no edge of the path is soft-deleted
ActivePath(V, E, q) ==
    /\ \A i \in 1..Len(q.ids) : ATTR(VertexOf(V, q.ids[i]), "_status") = Bool(TRUE)
    /\ \A i \in 1..Len(q.keys) : ATTR(E[q.keys[i]], "_status") = Bool(TRUE)

\* the paths from the start vertex of the request
RequestPaths ==
    UNION {PathsOfLength(aqlParams.direction.v, edges, aqlParams.start_id, n) :
             n \in 0..(MaxDepth + 1)}

\* C4: in each variant, getGraphVertices never returns a vertex reached over
\* a path on which a vertex (the start vertex and the intermediate ones
\* included) or an edge is soft-deleted: every returned vertex ends a path
\* from the start vertex that is active throughout.
C4_NoResultOverSoftDeletedPath ==
    (aqlOp = "getGraphVertices" /\ res.k = "list" /\ ~HasKeepAttrs(aqlParams.options)) =>
        \A i \in 1..Len(res.list) :
            LET item == res.list[i]
                id == IF DOMAIN item = {"vertex", "edge"} THEN item.vertex["_id"]
                      ELSE item["_id"]
            IN \E q \in RequestPaths :
                  q.ids[Len(q.ids)] = id /\ ActivePath(coll, edges, q)

-----------------------------------------------------------------------------
(* A page call among the writes of other requests.  The handler of a page  *)
(* call composes one query and awaits this.query(query) once; while it     *)
(* waits, the handlers of other requests run and their queries change the  *)
(* collections.  The engine runs a query on the state the collections have *)
(* when the query starts.                                                  *)

getVerticesPageSchema(ver, direction, p) ==
    /\ directionSchema(direction)
    /\ JoiString(p._id)
    /\ JoiInteger(p.page_num) /\ JoiInteger(p.page_size)
    /\ p.offset = Undefined /\ p.count = Undefined
    /\ Optional(p.v_filter, LAMBDA f : filterOfVariant(ver, f))
    /\ Optional(p.e_filter, LAMBDA f : filterOfVariant(ver, f))
    /\ IF ver = V2
       THEN /\ Optional(p.v_like, LAMBDA l : likeSchema(ver, l))
            /\ Optional(p.e_like, LAMBDA l : likeSchema(ver, l))
       ELSE p.v_like = Undefined /\ p.e_like = Undefined
    /\ Optional(p.v_sorts, sortSchema) /\ Optional(p.e_sorts, sortSchema)
    /\ Optional(p.options, LAMBDA o : optionsSchema(ver, o))

\* the FILTER lines of getVerticesPage
getVerticesPageFilter(ver, p) ==
    LET vLikeAql == getLikeAql(ver, p.v_like, "v")
        eLikeAql == getLikeAql(ver, p.e_like, "e")
    IN getVerticesFilter(ver, p)
       \o (IF ver = V2
           THEN vLikeAql.andAql \o eLikeAql.andAql \o vLikeAql.orAql \o eLikeAql.orAql
           ELSE NoAql)

getVerticesPageAql(ver, direction, p) ==
    LET offset == Num(convertOffset(p.page_num.v, p.page_size.v))
        count == p.page_size
    IN T("WITH") \o L(getWithCollectionNames) \o T("LET vs = ( FOR v,e IN")
       \o L(LiteralText(direction)) \o B(p._id) \o collection
       \o getVerticesPageFilter(ver, p) \o EdgeSortAql(ver, p)
       \o T("RETURN") \o getResAql(ver, p.options, "v") \o T(")")
       \o T("LET vsl = (") \o (IF ver = V2 THEN T("LET list = (") ELSE <<>>)
       \o T("FOR vl IN vs LIMIT") \o B(offset) \o T(",") \o B(count) \o T("RETURN vl")
       \o (IF ver = V2 THEN T(")") \o getStaticDataAql(ver, p.options) ELSE <<>>)
       \o T(") LET totalCount = LENGTH(vs) LET flag = (") \o B(offset) \o T("+")
       \o B(count) \o T(">= totalCount) LET end = flag ? totalCount :") \o B(offset)
       \o T("+") \o B(count) \o T("LET hasMore = !flag RETURN")
       \o T("{total_count:totalCount, has_more:hasMore, end:end,")
       \o (IF ver = V2 THEN T("list") ELSE L("tests")) \o T(":vsl}")

\* what the query of getVerticesPage may return on vertices V and edges E
getVerticesPageResults(ver, direction, p, V, E) ==
    LET cond == getVerticesPageFilter(ver, p)
        keys == SortKeys(EdgeSortAql(ver, p))
        resAql == getResAql(ver, p.options, "v")
        offset == convertOffset(p.page_num.v, p.page_size.v)
        envs == {env \in Traversal(V, E, direction.v, p._id, 1, 1) :
                   FilterHolds(cond, env)}
    IN IF ~FilterParses(cond) THEN {BizError}
       ELSE {PageOf(ver, [i \in 1..Len(o) |-> ReturnValue(resAql, o[i])],
                    offset, p.page_size.v) :
               o \in Sorted(envs, keys)}

\* the request data of the page calls
ConcPageParams ==
    {p \in PageParams : p.page_num \in {Num(1), Num(2)} /\ p.page_size = Num(1)}

ConcVerticesParams ==
    [direction : {Str("OUTBOUND"), Str("ANY")},
     _id : {IdOf(getWithCollectionNames, "1")},
     page_num : {Num(1), Num(2)}, page_size : {Num(1)},
     v_filter : {Undefined, Obj(<<Entry("name", Str("Al"))>>)}, e_filter : {Undefined},
     v_like : {Undefined}, e_like : {Undefined},
     v_sorts : {Undefined}, e_sorts : {Undefined}, options : {Undefined},
     offset : {Undefined}, count : {Undefined}]

\* the request data of the other requests
ConcSaveDocs ==
    {Obj(<<Entry("name", Str("Al"))>>),
     Obj(<<Entry("name", Str("Bo")), Entry("password", Str("other"))>>)}

ConcUpdateObj == Obj(<<Entry("name", Str("Bo"))>>)

\* the edges between the first two documents, there and back
ConcEdges ==
    [key \in {"4", "5"} |->
       IF key = "4" THEN StoredEdge("4", "1", "2", TRUE)
       ELSE StoredEdge("5", "2", "1", TRUE)]

InitConc ==
    /\ variant \in Variants
    /\ aqlOp \in {"getPage", "getVerticesPage"}
    /\ aqlParams \in IF aqlOp = "getPage" THEN ConcPageParams ELSE ConcVerticesParams
    /\ aqlOutcome = "none"
    /\ aqlQuery = <<>>
    /\ coll = EmptyColl
    /\ nextKey = 1
    /\ deleted = NoneDeleted
    /\ edges = IF aqlOp = "getVerticesPage" THEN ConcEdges ELSE EmptyColl
    /\ trail = {}
    /\ res = NoRes

\* getPage(_params) up to await this.query(query): the one query of the call
\* is on its way
getPageAwaitsQuery ==
    /\ aqlOp = "getPage" /\ aqlOutcome = "none"
    /\ IF ~getPageSchema(variant, aqlParams)
       THEN /\ aqlOutcome' = "BizError"
            /\ res' = BizError
            /\ UNCHANGED <<aqlParams, aqlQuery, trail>>
       ELSE /\ aqlOutcome' = "sent"
            /\ aqlParams' =
                 [aqlParams EXCEPT
                    !.offset = Num(convertOffset(aqlParams.page_num.v, aqlParams.page_size.v)),
                    !.count = aqlParams.page_size]
            /\ aqlQuery' = getPageAql(variant, aqlParams)
            /\ trail' = {<<coll, edges>>}
            /\ UNCHANGED res
    /\ UNCHANGED <<variant, aqlOp, coll, nextKey, deleted, edges>>

\* getVerticesPage(direction, _params) up to await this.query(query)
getVerticesPageAwaitsQuery ==
    /\ aqlOp = "getVerticesPage" /\ aqlOutcome = "none"
    /\ IF ~getVerticesPageSchema(variant, aqlParams.direction, aqlParams)
       THEN /\ aqlOutcome' = "BizError"
            /\ res' = BizError
            /\ UNCHANGED <<aqlParams, aqlQuery, trail>>
       ELSE /\ aqlOutcome' = "sent"
            /\ aqlParams' =
                 [aqlParams EXCEPT
                    !.offset = Num(convertOffset(aqlParams.page_num.v, aqlParams.page_size.v)),
                    !.count = aqlParams.page_size]
            /\ aqlQuery' = getVerticesPageAql(variant, aqlParams.direction, aqlParams)
            /\ trail' = {<<coll, edges>>}
            /\ UNCHANGED res
    /\ UNCHANGED <<variant, aqlOp, coll, nextKey, deleted, edges>>

\* the engine runs the query of the page call and the handler returns
\* convertArrayToObject of its answer
pageQueryRuns ==
    /\ aqlOutcome = "sent"
    /\ aqlOutcome' = "issued"
    /\ res' \in IF aqlOp = "getPage"
                THEN getPageResults(variant, aqlParams, coll)
                ELSE getVerticesPageResults(variant, aqlParams.direction, aqlParams,
                                            coll, edges)
    /\ UNCHANGED <<variant, aqlOp, aqlParams, aqlQuery, coll, nextKey, deleted,
                   edges, trail>>

\* the most writes of other requests followed while the page call waits
MaxInFlight == 2

\* the writes of the other requests are followed until the page call has its
\* answer; trail holds the states the collections pass through while the
\* page call waits
Trailed ==
    /\ aqlOutcome \in {"none", "sent"}
    /\ aqlOutcome = "sent" => Cardinality(trail) <= MaxInFlight
    /\ trail' = IF aqlOutcome = "sent" THEN trail \cup {<<coll', edges'>>} ELSE trail

\* save(doc) of another request
otherSave(doc) ==
    /\ saveSchema(variant, doc)
    /\ nextKey <= MaxDocs
    /\ coll' = INSERT(coll, KeyNames[nextKey],
                      Payload(doc, [_create_date |-> Str(ComposeDate),
                                    _status |-> Bool(TRUE)]))
    /\ nextKey' = nextKey + 1
    /\ UNCHANGED <<variant, aqlOp, aqlParams, aqlOutcome, aqlQuery, res, deleted, edges>>
    /\ Trailed

\* update(_params) of another request: V2 composes a query the engine
\* does not accept
otherUpdate(_id) ==
    /\ updateSchema(variant, [_id |-> _id, newObj |-> ConcUpdateObj,
                              aqlOption |-> Undefined])
    /\ variant = V1
    /\ KeyFound(coll, _id)
    /\ coll' = UPDATE(coll, PARSE_IDENTIFIER(_id).key,
                      Payload(ConcUpdateObj, [_update_date |-> Str(ComposeDate)]))
    /\ UNCHANGED <<variant, aqlOp, aqlParams, aqlOutcome, aqlQuery, res, deleted, edges,
                   nextKey>>
    /\ Trailed

\* delete(_id) of another request on the documents
otherDelete(_id) ==
    /\ deleteSchema(variant, _id)
    /\ KeyFound(coll, _id)
    /\ coll' = UPDATE(coll, PARSE_IDENTIFIER(_id).key, [_status |-> Bool(FALSE)])
    /\ UNCHANGED <<variant, aqlOp, aqlParams, aqlOutcome, aqlQuery, res, deleted, edges,
                   nextKey>>
    /\ Trailed

\* delete(_id) of another request on the edges
otherDeleteEdge(_id) ==
    /\ deleteSchema(variant, _id)
    /\ KeyFound(edges, _id)
    /\ edges' = UPDATE(edges, PARSE_IDENTIFIER(_id).key, [_status |-> Bool(FALSE)])
    /\ UNCHANGED <<variant, aqlOp, aqlParams, aqlOutcome, aqlQuery, res, deleted, coll,
                   nextKey>>
    /\ Trailed

NextConc ==
    \/ getPageAwaitsQuery
    \/ getVerticesPageAwaitsQuery
    \/ pageQueryRuns
    \/ \E doc \in ConcSaveDocs : otherSave(doc)
    \/ \E key \in RowKeys(MaxDocs) : otherUpdate(IdOf(getCollectionName, key))
    \/ \E key \in RowKeys(MaxDocs) : otherDelete(IdOf(getCollectionName, key))
    \/ \E key \in DOMAIN ConcEdges : otherDeleteEdge(IdOf(getCollectionName, key))

SpecConc == InitConc /\ [][NextConc]_vars

-----------------------------------------------------------------------------
(* Properties of a page call among the writes of other requests *)

\* answer r is the page at p.offset of the candidates docs, a function of
\* candidate key to stored record: its count, its end, its has_more and its
\* items
DescribesCandidates(r, p, sorts, docs) ==
    LET candidates == DOMAIN docs
        total == Cardinality(candidates)
        offset == p.offset.v
        end == Min(offset + p.page_size.v, total)
        size == IF end > offset THEN end - offset ELSE 0
    IN /\ r.total_count = total
       /\ r.end = end
       /\ r.has_more = (offset + p.page_size.v < total)
       /\ Len(r.list) = size
       /\ \E order \in Orders(candidates) :
             /\ Truthy(sorts) =>
                   \A i, j \in 1..total :
                       i < j => ~SortsBefore(sorts.v, 1, docs[order[j]], docs[order[i]])
             /\ \A i \in 1..size :
                   LET item == r.list[i]
                       doc == docs[order[offset + i]]
                   IN /\ ATTR(item, "_id") = doc["_id"]
                      /\ \A a \in DOMAIN item : a \in DOMAIN doc /\ item[a] = doc[a]

\* the vertex an edge leads to from id, Null when the edge does not leave id
\* in the direction
Neighbour(direction, e, id) ==
    IF direction \in {"OUTBOUND", "ANY"} /\ e["_from"] = id THEN e["_to"]
    ELSE IF direction \in {"INBOUND", "ANY"} /\ e["_to"] = id THEN e["_from"]
    ELSE Null

\* answer r of page call op with parameters p describes the state of
\* documents V and edges E
DescribesState(r, op, p, V, E) ==
    IF op = "getPage"
    THEN DescribesCandidates(r, p, p.sorts,
             [key \in {k \in DOMAIN V : PageMatches(V[k], p)} |-> V[key]])
    ELSE LET vp == [filter |-> p.v_filter, like |-> p.v_like]
             near(key) == VertexOf(V, Neighbour(p.direction.v, E[key], p._id))
             \* the vertex with the ends of the edge that leads to it
             reached(key) ==
                 [a \in DOMAIN near(key) \cup {"_from", "_to"} |->
                    IF a \in {"_from", "_to"} THEN E[key][a] ELSE near(key)[a]]
         IN DescribesCandidates(r, p, p.v_sorts,
                [key \in {k \in DOMAIN E :
                            /\ E[k]["_status"] = Bool(TRUE)
                            /\ near(k) # Null
                            /\ PageMatches(near(k), vp)} |-> reached(key)])

\* C7: getPage and getVerticesPage issue exactly one query per call, so when
\* save, update and delete operations of other requests interleave with a
\* page call, the returned total_count, has_more, end and item list all
\* describe one and the same state of the collections: one of the states
\* the collections had while the call was waiting for its query.
C7_PageDescribesOneState ==
    (aqlOutcome = "issued" /\ res.k = "page") =>
        \E s \in trail : DescribesState(res, aqlOp, aqlParams, s[1], s[2])

\* writes of other requests came between the call and its query, and the
\* answer no longer describes the state the call started on
C7_Witness ==
    /\ aqlOutcome = "issued" /\ res.k = "page"
    /\ Cardinality(trail) > 2
    /\ res.total_count >= 1
    /\ \E s \in trail : ~DescribesState(res, aqlOp, aqlParams, s[1], s[2])

-----------------------------------------------------------------------------
(* The list operations and the edge operations that hand their input on    *)
(* to them.  A handler is an operator from its input and the collection to *)
(* what it leaves behind: the outcome, the query handed to this.query, the *)
(* answer and the collection.                                              *)

\* a parameter object {_ids, newObj}; a list of items is an Arr
IdsParams(_ids, newObj) == [k |-> "object", _ids |-> _ids, newObj |-> newObj]
Item(_id, newObj) == [_id |-> _id, newObj |-> newObj, aqlOption |-> Undefined]
EdgeItem(from, to, attrs) == [_from |-> from, _to |-> to, attrs |-> attrs]

\* validateData throws: no query was composed
Thrown(c) == [aqlOutcome |-> "BizError", aqlQuery |-> <<>>, res |-> BizError, coll |-> c]

\* this.query(query) was called
Queried(query, r, c) == [aqlOutcome |-> "issued", aqlQuery |-> query, res |-> r, coll |-> c]

\* Joi.object().keys({ _from: Joi.string(), _to: Joi.string() }).required()
edgeNewObjSchema(x) ==
    /\ IsObject(x)
    /\ \A i \in 1..Len(x.v) : x.v[i].key \in {"_from", "_to"} /\ JoiString(x.v[i].val)

\* V2 filterMinValid, V1 filterMinSchema: the newObj of the update operations
newObjSchema(ver, x) == IF ver = V2 THEN filterMinValid(x) ELSE filterMinRequired(x)

updatesSchema(ver, p) ==
    /\ p.k = "object"
    /\ deletesSchema(ver, p._ids)
    /\ newObjSchema(ver, p.newObj)

updateEdgesSchema(ver, p) ==
    /\ p.k = "object"
    /\ deletesSchema(ver, p._ids)
    /\ edgeNewObjSchema(p.newObj)

updatesEachSchema(ver, list) ==
    /\ IsArray(list) /\ Len(list.v) >= 1
    /\ \A i \in 1..Len(list.v) :
          /\ JoiString(list.v[i]._id)
          /\ newObjSchema(ver, list.v[i].newObj)
          /\ IF ver = V2 THEN Optional(list.v[i].aqlOption, filterCommon)
             ELSE list.v[i].aqlOption = Undefined

updateEdgesEachSchema(ver, list) ==
    /\ IsArray(list) /\ Len(list.v) >= 1
    /\ \A i \in 1..Len(list.v) :
          /\ JoiString(list.v[i]._id)
          /\ edgeNewObjSchema(list.v[i].newObj)
          /\ list.v[i].aqlOption = Undefined

saveEdgesSchema(ver, list) ==
    /\ IsArray(list) /\ Len(list.v) >= 1
    /\ \A i \in 1..Len(list.v) :
          /\ JoiString(list.v[i]._from) /\ JoiString(list.v[i]._to)
          /\ Optional(list.v[i].attrs, filterMinRequired)

updatesAql(ver, p, date) ==
    IF ver = V2
    THEN T("let tsl = ( FOR id IN") \o B(p._ids) \o T("FOR t IN") \o collection
         \o T("FILTER t._id == id and t._status == true")
         \o T("UPDATE t WITH MERGE(UNSET(") \o B(p.newObj) \o T(",") \o B(StrArr(unset))
         \o T("), { _update_date:") \o B(Str(date)) \o T("}) IN") \o collection
         \o T("OPTIONS { keepNull: false } RETURN NEW._id ) RETURN {_ids: tsl}")
    ELSE T("let tsl = ( FOR t IN") \o B(p._ids)
         \o T("LET key = PARSE_IDENTIFIER(t).key UPDATE key WITH MERGE(UNSET(")
         \o B(p.newObj) \o T(",") \o B(StrArr(unset))
         \o T("), { _update_date:") \o B(Str(date)) \o T("}) IN") \o collection
         \o T("RETURN NEW._id ) RETURN {_ids: tsl}")

updatesEachAql(ver, list, date) ==
    IF ver = V2
    THEN T("let tsl = ( FOR it IN") \o B(list) \o T("FOR t IN") \o collection
         \o T("FILTER t._id == it._id and t._status == true")
         \o T("UPDATE t WITH MERGE(UNSET(it.newObj,") \o B(StrArr(unset))
         \o T("), { _update_date:") \o B(Str(date)) \o T("}) IN") \o collection
         \o T("OPTIONS { keepNull: false } RETURN NEW._id ) RETURN {_ids: tsl}")
    ELSE T("let tsl = ( FOR t IN") \o B(list)
         \o T("LET key = PARSE_IDENTIFIER(t._id).key UPDATE key WITH MERGE(UNSET(t.newObj,")
         \o B(StrArr(unset)) \o T("), { _update_date:") \o B(Str(date)) \o T("}) IN")
         \o collection \o T("RETURN NEW._id ) RETURN {_ids: tsl}")

\* _params[idx] = { _from: el._from, _to: el._to, ...el.attrs }
EdgeDocOf(el) ==
    IF Truthy(el.attrs)
    THEN MERGE([_from |-> el._from, _to |-> el._to], DocOf(el.attrs))
    ELSE [_from |-> el._from, _to |-> el._to]

saveEdgesAql(ver, list, date) ==
    T("let tsl = ( FOR t IN") \o B([k |-> "array", v |-> [i \in 1..Len(list.v) |-> EdgeDocOf(list.v[i])]])
    \o T("INSERT MERGE(t, { _create_date:") \o B(Str(date))
    \o T(", _status: true }) INTO") \o collection
    \o T("RETURN NEW._id ) RETURN {_ids: tsl}")

\* V2: FOR t IN collection FILTER t._id == id and t._status == true;
\* V1: LET key = PARSE_IDENTIFIER(id).key: the keys the UPDATE works on
UpdateKeys(ver, c, _id) ==
    IF ver = V2
    THEN {key \in DOMAIN c : c[key]["_id"] = _id /\ c[key]["_status"] = Bool(TRUE)}
    ELSE {PARSE_IDENTIFIER(_id).key}

\* V1: UPDATE key fails when no document has the key
UpdateFails(ver, c, items) ==
    ver = V1 /\ \E i \in 1..Len(items) : ~KeyFound(c, items[i]._id)

\* FOR it IN items ... UPDATE ... WITH MERGE(UNSET(it.newObj, unset),
\* { _update_date }): one item after the other
RECURSIVE UpdateEach(_, _, _, _)
UpdateEach(ver, c, items, date) ==
    IF items = <<>> THEN c
    ELSE LET patch == Payload(Head(items).newObj, [_update_date |-> Str(date)])
             keys == UpdateKeys(ver, c, Head(items)._id)
         IN UpdateEach(ver,
                       [key \in DOMAIN c |->
                          IF key \in keys THEN MERGE(c[key], patch) ELSE c[key]],
                       Tail(items), date)

\* RETURN NEW._id of every update, in the order of the items
RECURSIVE UpdatedIds(_, _, _)
UpdatedIds(ver, c, items) ==
    IF items = <<>> THEN <<>>
    ELSE LET keys == UpdateKeys(ver, c, Head(items)._id) IN
         (IF keys = {} THEN <<>> ELSE <<c[CHOOSE key \in keys : TRUE]["_id"]>>)
         \o UpdatedIds(ver, c, Tail(items))

\* the query of updates or updatesEach runs on the items
UpdateQuery(ver, query, items, c) ==
    IF UpdateFails(ver, c, items) THEN Queried(query, BizError, c)
    ELSE Queried(query, ReturnedIds(UpdatedIds(ver, c, items)),
                 UpdateEach(ver, c, items, ComposeDate))

\* BaseDao.updates(_params)
updatesHandler(ver, p, c) ==
    IF ~updatesSchema(ver, p) THEN Thrown(c)
    ELSE UpdateQuery(ver, updatesAql(ver, p, ComposeDate),
                     [i \in 1..Len(p._ids.v) |-> Item(p._ids.v[i], p.newObj)], c)

\* updatesEach without its validateData
updatesEachUnchecked(ver, list, c) ==
    UpdateQuery(ver, updatesEachAql(ver, list, ComposeDate), list.v, c)

\* BaseDao.updatesEach(_params)
updatesEachHandler(ver, list, c) ==
    IF ~updatesEachSchema(ver, list) THEN Thrown(c)
    ELSE UpdateQuery(ver, updatesEachAql(ver, list, ComposeDate), list.v, c)

\* BaseDao.updateEdges(_params): return await this.updates(_params)
updateEdgesHandler(ver, p, c) ==
    IF ~updateEdgesSchema(ver, p) THEN Thrown(c) ELSE updatesHandler(ver, p, c)

\* BaseDao.updateEdgesEach(_params): return await this.updates(_params)
updateEdgesEachHandler(ver, list, c) ==
    IF ~updateEdgesEachSchema(ver, list) THEN Thrown(c) ELSE updatesHandler(ver, list, c)

\* BaseService.updatesEach(_params): return this.dao[...].updates(_params)
serviceUpdatesEach(ver, list, c) == updatesHandler(ver, list, c)

\* BaseService.updateEdgesEach(_params): return this.dao[...].updateEdges(_params)
serviceUpdateEdgesEach(ver, list, c) == updateEdgesHandler(ver, list, c)

\* FOR t IN docs INSERT MERGE(t, { _create_date, _status: true }): the
\* engine assigns the keys from n on
RECURSIVE InsertAll(_, _, _, _)
InsertAll(c, n, docs, date) ==
    IF docs = <<>> THEN c
    ELSE InsertAll(INSERT(c, KeyNames[n],
                          MERGE(Head(docs), [_create_date |-> Str(date),
                                             _status |-> Bool(TRUE)])),
                   n + 1, Tail(docs), date)

\* BaseDao.saveEdges(_params)
saveEdgesHandler(ver, list, c, n) ==
    IF ~saveEdgesSchema(ver, list) THEN Thrown(c)
    ELSE Queried(saveEdgesAql(ver, list, ComposeDate),
                 ReturnedIds([i \in 1..Len(list.v) |->
                                IdOf(getCollectionName, KeyNames[n + i - 1])]),
                 InsertAll(c, n, [i \in 1..Len(list.v) |-> EdgeDocOf(list.v[i])],
                           ComposeDate))

\* the request data of the list operations
EachNewObjs ==
    <<Obj(<<Entry("name", Str("Bo"))>>), Obj(<<Entry("password", Str("new"))>>)>>

EdgeNewObjs ==
    <<Obj(<<Entry("_to", IdOf(getCollectionName, "2"))>>),
      Obj(<<Entry("_from", IdOf(getCollectionName, "1"))>>)>>

\* lists of one and of two items, each item with its own newObj, on stored
\* and on missing records; the empty list; an item without _id; an item
\* with an empty newObj
ItemLists(newObjs) ==
    {Arr(<<Item(IdOf(getCollectionName, "1"), newObjs[1])>>),
     Arr(<<Item(IdOf(getCollectionName, "1"), newObjs[1]),
           Item(IdOf(getCollectionName, "2"), newObjs[2])>>),
     Arr(<<Item(IdOf(getCollectionName, "3"), newObjs[1])>>),
     Arr(<<>>),
     Arr(<<Item(Str(""), newObjs[1])>>),
     Arr(<<Item(IdOf(getCollectionName, "2"), Obj(<<>>))>>)}

EachLists == ItemLists(EachNewObjs)
EdgeEachLists == ItemLists(EdgeNewObjs) \cup ItemLists(EachNewObjs)

UpdatesParams ==
    {IdsParams(Arr(<<IdOf(getCollectionName, "1"), IdOf(getCollectionName, "2")>>),
               EachNewObjs[1]),
     IdsParams(Arr(<<IdOf(getCollectionName, "2")>>), EdgeNewObjs[1]),
     IdsParams(Arr(<<>>), EachNewObjs[1]),
     IdsParams(Arr(<<IdOf(getCollectionName, "1")>>), Obj(<<>>))}

SaveEdgeLists ==
    {Arr(<<EdgeItem(IdOf(getCollectionName, "1"), IdOf(getCollectionName, "2"), Undefined)>>),
     Arr(<<EdgeItem(IdOf(getCollectionName, "2"), IdOf(getCollectionName, "1"),
                    Obj(<<Entry("name", Str("Al"))>>))>>),
     Arr(<<>>),
     Arr(<<EdgeItem(Str(""), IdOf(getCollectionName, "1"), Undefined)>>),
     Arr(<<EdgeItem(IdOf(getCollectionName, "1"), IdOf(getCollectionName, "2"), Obj(<<>>))>>)}

InitEach ==
    /\ variant \in Variants
    /\ aqlOp = "none"
    /\ aqlParams = Undefined
    /\ aqlOutcome = "none"
    /\ aqlQuery = <<>>
    /\ coll \in {[key \in RowKeys(2) |-> StoredDoc(key, "Al", f[key], "1")] :
                   f \in [RowKeys(2) -> BOOLEAN]}
    /\ nextKey = 3
    /\ deleted = NoneDeleted
    /\ edges = EmptyColl
    /\ trail = {}
    /\ res = NoRes

\* the call of operation op with input p ended as handler result h says
Leaves(op, p, h) ==
    /\ Called(op, p, h.aqlOutcome, h.aqlQuery)
    /\ res' = h.res
    /\ coll' = h.coll
    /\ UNCHANGED <<variant, deleted, edges, trail>>

\* updates(_params)
updates(p) ==
    Leaves("updates", p, updatesHandler(variant, p, coll)) /\ UNCHANGED nextKey

\* updateEdges(_params)
updateEdges(p) ==
    Leaves("updateEdges", p, updateEdgesHandler(variant, p, coll)) /\ UNCHANGED nextKey

\* updatesEach(_params)
updatesEach(list) ==
    Leaves("updatesEach", list, updatesEachHandler(variant, list, coll))
    /\ UNCHANGED nextKey

\* updateEdgesEach(_params)
updateEdgesEach(list) ==
    Leaves("updateEdgesEach", list, updateEdgesEachHandler(variant, list, coll))
    /\ UNCHANGED nextKey

\* BaseService.updatesEach(_params)
BaseServiceUpdatesEach(list) ==
    Leaves("BaseService.updatesEach", list, serviceUpdatesEach(variant, list, coll))
    /\ UNCHANGED nextKey

\* BaseService.updateEdgesEach(_params)
BaseServiceUpdateEdgesEach(list) ==
    Leaves("BaseService.updateEdgesEach", list,
           serviceUpdateEdgesEach(variant, list, coll))
    /\ UNCHANGED nextKey

\* saveEdges(_params)
saveEdges(list) ==
    /\ nextKey + Len(list.v) - 1 <= MaxRows
    /\ Leaves("saveEdges", list, saveEdgesHandler(variant, list, coll, nextKey))
    /\ nextKey' = nextKey + Cardinality(DOMAIN coll') - Cardinality(DOMAIN coll)

NextEach ==
    \/ \E p \in UpdatesParams : updates(p)
    \/ \E p \in UpdatesParams : updateEdges(p)
    \/ \E list \in EachLists : updatesEach(list)
    \/ \E list \in EdgeEachLists : updateEdgesEach(list)
    \/ \E list \in EachLists : BaseServiceUpdatesEach(list)
    \/ \E list \in EdgeEachLists : BaseServiceUpdateEdgesEach(list)
    \/ \E list \in SaveEdgeLists : saveEdges(list)

SpecEach == InitEach /\ [][NextEach]_vars

-----------------------------------------------------------------------------
(* Properties of the list operations *)

\* the schema a BaseDao operation validates its input against
OperationSchema(ver, op, p) ==
    CASE op = "updates" -> updatesSchema(ver, p)
      [] op = "updateEdges" -> updateEdgesSchema(ver, p)
      [] op = "updatesEach" -> updatesEachSchema(ver, p)
      [] op = "updateEdgesEach" -> updateEdgesEachSchema(ver, p)
      [] op = "saveEdges" -> saveEdgesSchema(ver, p)

DaoOperations == {"updates", "updateEdges", "updatesEach", "updateEdgesEach", "saveEdges"}

\* C11: for every BaseDao operation, a call whose input fails the schema of
\* the operation ends in a business error, no query is handed to the
\* connector for it, and the stored data are what they were before the call.
C11_RejectedBeforeQuery ==
    [][(aqlOp' \in DaoOperations /\ ~OperationSchema(variant, aqlOp', aqlParams')) =>
          /\ aqlOutcome' = "BizError"
          /\ res' = BizError
          /\ aqlQuery' = <<>>
          /\ coll' = coll /\ edges' = edges]_vars

\* saveEdges was rejected for its input after an earlier saveEdges stored
\* an edge
C11_Witness ==
    /\ aqlOp = "saveEdges" /\ ~saveEdgesSchema(variant, aqlParams)
    /\ res = BizError
    /\ nextKey > 3

\* the schema of the items of a per-item update
PerItemSchema(ver, op, list) ==
    IF op = "BaseService.updatesEach" THEN updatesEachSchema(ver, list)
    ELSE updateEdgesEachSchema(ver, list)

\* every item names an active record of collection c
ItemsAreActive(c, list) ==
    \A i \in 1..Len(list.v) :
        /\ KeyFound(c, list.v[i]._id)
        /\ c[PARSE_IDENTIFIER(list.v[i]._id).key]["_id"] = list.v[i]._id
        /\ c[PARSE_IDENTIFIER(list.v[i]._id).key]["_status"] = Bool(TRUE)

\* C17: updatesEach called through BaseService, and updateEdgesEach called
\* through BaseService or directly on BaseDao, with a valid non-empty list
\* of {_id, newObj} items on active records succeeds: every listed record
\* takes the values of its own newObj and the ids of the items are returned.
C17_PerItemUpdateSucceeds ==
    [][(/\ aqlOp' \in {"BaseService.updatesEach", "BaseService.updateEdgesEach",
                       "updateEdgesEach"}
        /\ PerItemSchema(variant, aqlOp', aqlParams')
        /\ ItemsAreActive(coll, aqlParams')) =>
          /\ res' = ReturnedIds([i \in 1..Len(aqlParams'.v) |-> aqlParams'.v[i]._id])
          /\ \A i \in 1..Len(aqlParams'.v) :
                LET doc == coll'[PARSE_IDENTIFIER(aqlParams'.v[i]._id).key]
                    newObj == DocOf(aqlParams'.v[i].newObj)
                IN \A a \in DOMAIN newObj \ Range(unset) : ATTR(doc, a) = newObj[a]]_vars

-----------------------------------------------------------------------------
(* query(_query): the connector call and the read of its cursor *)

\* this.BizError('Execute AQL ERROR: ' + error.message)
QueryBizError(message) ==
    [k |-> "BizError", code |-> -1, message |-> <<"Execute AQL ERROR: ", message>>]

\* the rejection of a promise nobody of the Dao catches: the error as thrown
Rejection(message) == [k |-> "Error", message |-> <<message>>]

\* the rows cursor.all() reads for the query of getOne(p)
queryRows(ver, p, c) ==
    LET resAql == getResAql(ver, p.options, "")
    IN {ReturnedList(ver, [i \in 1..Len(o) |-> ReturnValue(resAql, o[i])]) :
          o \in Sorted(DocEnvs(getOneFilter(p), c), <<>>)}

\* the engine refuses the query of getOne(p): the connector call fails
queryRefused(ver, p) ==
    \/ ~FilterParses(getOneFilter(p))
    \/ ReturnUsesEdge(getResAql(ver, p.options, ""))

\* messages of the errors the connector can raise
ConnectorMessages == {"connect ECONNREFUSED", "cursor not found"}

QueryParams == {[_id |-> _id, options |-> o] : _id \in CallIds, o \in GetOptions}

InitQuery ==
    /\ variant \in Variants
    /\ aqlOp = "none"
    /\ aqlParams = Undefined
    /\ aqlOutcome = "none"
    /\ aqlQuery = <<>>
    /\ coll \in {[key \in RowKeys(2) |-> StoredDoc(key, "Al", f[key], "1")] :
                   f \in [RowKeys(2) -> BOOLEAN]}
    /\ nextKey = 3
    /\ deleted = NoneDeleted
    /\ edges = EmptyColl
    /\ trail = <<>>
    /\ res = NoRes

\* query(_query) up to its await: this.arango.query(_query, _opt) is invoked;
\* trail lists the queries handed to the connector by this call
query(p) ==
    /\ aqlOutcome \notin {"sent", "cursor"}
    /\ getOneSchema(variant, p)
    /\ Called("query", p, "sent", getOneAql(variant, p))
    /\ trail' = <<getOneAql(variant, p)>>
    /\ res' = NoRes
    /\ UNCHANGED <<variant, coll, edges, nextKey, deleted>>

\* await this.arango.query(...) throws inside the try block: the catch block
\* throws this.BizError('Execute AQL ERROR: ' + error.message)
arangoQueryRejects(message) ==
    /\ aqlOp = "query" /\ aqlOutcome = "sent"
    /\ aqlOutcome' = "BizError"
    /\ res' = QueryBizError(message)
    /\ UNCHANGED <<variant, aqlOp, aqlParams, aqlQuery, coll, edges, trail, nextKey,
                   deleted>>

\* await this.arango.query(...) gives the cursor: `return cursor.all()` hands
\* the promise of the read to the caller and leaves the try block
arangoQueryResolves ==
    /\ aqlOp = "query" /\ aqlOutcome = "sent"
    /\ ~queryRefused(variant, aqlParams)
    /\ aqlOutcome' = "cursor"
    /\ UNCHANGED <<variant, aqlOp, aqlParams, aqlQuery, coll, edges, trail, nextKey,
                   deleted, res>>

\* the promise of cursor.all() is rejected: the caller of query gets the
\* rejection as it is
cursorAllRejects(message) ==
    /\ aqlOp = "query" /\ aqlOutcome = "cursor"
    /\ aqlOutcome' = "Error"
    /\ res' = Rejection(message)
    /\ UNCHANGED <<variant, aqlOp, aqlParams, aqlQuery, coll, edges, trail, nextKey,
                   deleted>>

\* the promise of cursor.all() is fulfilled with the rows
cursorAllResolves ==
    /\ aqlOp = "query" /\ aqlOutcome = "cursor"
    /\ aqlOutcome' = "issued"
    /\ res' \in queryRows(variant, aqlParams, coll)
    /\ UNCHANGED <<variant, aqlOp, aqlParams, aqlQuery, coll, edges, trail, nextKey,
                   deleted>>

NextQuery ==
    \/ \E p \in QueryParams : query(p)
    \/ \E message \in ConnectorMessages : arangoQueryRejects(message)
    \/ arangoQueryResolves
    \/ \E message \in ConnectorMessages : cursorAllRejects(message)
    \/ cursorAllResolves

SpecQuery == InitQuery /\ [][NextQuery]_vars

\* the text of an error contains the message
Contains(error, message) == \E i \in DOMAIN error.message : error.message[i] = message

\* C12: a call of query hands its query to the connector at most once, and
\* when the connector call or the read of the cursor fails the call ends in a
\* business error whose text contains the message of the failure
C12_FailureIsBusinessError ==
    [][/\ Len(trail') <= 1
       /\ \A message \in ConnectorMessages :
             (arangoQueryRejects(message) \/ cursorAllRejects(message)) =>
                /\ res'.k = "BizError"
                /\ Contains(res', message)
                /\ trail' = trail]_vars

-----------------------------------------------------------------------------
(* Single-result reads: getOne and getOneByFilter on a collection *)

\* getOneByFilter: the rows of the query, then (app/dao/base.js only)
\* this.validateData(Joi.array().max(1), objs), then convertArrayToObject;
\* unnamed/part_002 sorts the rows by _create_date desc and takes the first
getOneByFilterResults(ver, p, c) ==
    LET cond == getOneByFilterFilter(ver, p)
        resAql == getResAql(ver, p.options, "")
        keys == IF ver = V2
                THEN <<[alias |-> "t", field |-> "_create_date", desc |-> TRUE]>>
                ELSE <<>>
    IN IF ~FilterParses(cond) \/ ReturnUsesEdge(resAql) THEN {BizError}
       ELSE {IF ver = V1 /\ Len(o) > 1 THEN BizError
             ELSE IF Len(o) = 0 THEN Returned(ver, ReturnedNull)
             ELSE Returned(ver, ReturnedDoc(ReturnValue(resAql, o[1]))) :
               o \in Sorted(DocEnvs(cond, c), keys)}

\* getOneByFilter(_params)
getOneByFilter(p) ==
    /\ IF ~getOneByFilterSchema(variant, p)
       THEN /\ Called("getOneByFilter", p, "BizError", <<>>)
            /\ res' = BizError
       ELSE /\ Called("getOneByFilter", p, "issued", getOneByFilterAql(variant, p))
            /\ res' \in getOneByFilterResults(variant, p, coll)
    /\ UNCHANGED <<variant, coll, nextKey, deleted, edges, trail>>

OneFilters ==
    {Obj(<<>>),
     Obj(<<Entry("name", Str("Al"))>>),
     Obj(<<Entry("name", Str("Cy"))>>),
     Obj(<<Entry("name", Arr(<<Str("Al"), Str("Bo")>>)), Entry("_create_date", Str("1"))>>)}

OneOptions == {Undefined, Options(Chars(<<"name">>), FALSE, FALSE, FALSE)}

OneIds == {IdOf(getCollectionName, key) : key \in RowKeys(MaxRows + 1)} \cup {Str("")}

InitOne ==
    /\ variant \in Variants
    /\ aqlOp = "none"
    /\ aqlParams = Undefined
    /\ aqlOutcome = "none"
    /\ aqlQuery = <<>>
    /\ coll \in PageColls
    /\ nextKey = Cardinality(DOMAIN coll) + 1
    /\ deleted = NoneDeleted
    /\ edges = EmptyColl
    /\ trail = {}
    /\ res = NoRes

NextOne ==
    \/ \E _id \in OneIds, o \in OneOptions : getOne([_id |-> _id, options |-> o])
    \/ \E f \in OneFilters, o \in OneOptions :
          getOneByFilter([filter |-> f, options |-> o])

SpecOne == InitOne /\ [][NextOne]_vars

\* the active records a single-result read matches
ActiveMatches(ver, op, p, c) ==
    IF op = "getOne"
    THEN {key \in DOMAIN c : c[key]["_id"] = p._id /\ c[key]["_status"] = Bool(TRUE)}
    ELSE {key \in DOMAIN c :
            /\ c[key]["_status"] = Bool(TRUE)
            /\ \A i \in 1..Len(p.filter.v) :
                  LET e == p.filter.v[i]
                  IN IF IsArray(e.val) THEN ATTR(c[key], e.key) \in Range(e.val.v)
                     ELSE ATTR(c[key], e.key) = e.val}

\* a call of a single-result read that passed its schema
IsSingleRead ==
    /\ aqlOp' \in {"getOne", "getOneByFilter"}
    /\ aqlOutcome' = "issued"

\* C13: in each variant, getOne and getOneByFilter raise a business error
\* whenever more than one active record matches, and never return one of the
\* matching records in that case
C13_SeveralMatchesRaise ==
    [][(IsSingleRead
          /\ Cardinality(ActiveMatches(variant, aqlOp', aqlParams', coll)) > 1)
         => res' = BizError]_vars

\* C14: in each variant, getOne for an id with no active record (absent or
\* soft-deleted) and getOneByFilter for a filter that matches no active record
\* return null and raise no error
C14_NoMatchReturnsNull ==
    [][(IsSingleRead /\ ActiveMatches(variant, aqlOp', aqlParams', coll) = {})
         => res' = ReturnedNull]_vars

-----------------------------------------------------------------------------
(* Filters with empty values *)

\* the filters a call of the operation carries
FiltersOfCall(op, p) ==
    IF op \in {"getOneByFilter", "getsByFilter", "getPage"} THEN {p.filter}
    ELSE IF op \in {"getVertices", "getVerticesPage", "getGraphVertices"}
    THEN {p.v_filter, p.e_filter}
    ELSE {}

\* some value of the filter is '', null, NaN or Infinity
HasEmptyValue(filter) ==
    /\ IsObject(filter)
    /\ \E i \in 1..Len(filter.v) : filter.v[i].val \in {Str(""), Null, NaN, Infinity}

\* C15: every operation that takes a filter rejects, before any query is
\* issued, a filter in which some value is '', null, NaN or Infinity
C15_EmptyFilterValueRejected ==
    (/\ aqlOutcome # "none"
     /\ \E filter \in FiltersOfCall(aqlOp, aqlParams) : HasEmptyValue(filter))
    => (aqlOutcome = "BizError" /\ aqlQuery = <<>>)

-----------------------------------------------------------------------------
(* getsByFilter on a collection *)

\* unnamed/part_002: Joi.object({filter, like, sorts, options}).oxor('filter', 'like');
\* app/dao/base.js: filter is required and the schema knows no key like
getsByFilterSchema(ver, p) ==
    /\ IF ver = V2
       THEN /\ ~(p.filter # Undefined /\ p.like # Undefined)
            /\ Optional(p.filter, filterMinRequired)
            /\ Optional(p.like, LAMBDA l : likeSchema(ver, l))
       ELSE filterMinRequired(p.filter) /\ p.like = Undefined
    /\ Optional(p.sorts, sortSchema)
    /\ Optional(p.options, LAMBDA o : optionsSchema(ver, o))

getsByFilterAql(ver, p) ==
    T("LET tsl = (") \o (IF ver = V2 THEN T("LET list = (") ELSE <<>>)
    \o T("FOR t IN") \o collection \o DocFilterAql(ver, p)
    \o getSortAql(ver, getSortFieldAqlList(ver, p.sorts, ""))
    \o T("RETURN") \o getResAql(ver, p.options, "")
    \o (IF ver = V2 THEN T(")") \o getStaticDataAql(ver, p.options) \o T(") RETURN tsl")
        ELSE T(") RETURN {") \o L("tests") \o T(": tsl}"))

\* what the query of getsByFilter returns: the RETURN values of the active
\* records that pass the FILTER lines, in an order the SORT line allows
getsByFilterResults(ver, p, c) ==
    LET cond == DocFilterAql(ver, p)
        keys == SortKeys(getSortAql(ver, getSortFieldAqlList(ver, p.sorts, "")))
        resAql == getResAql(ver, p.options, "")
    IN IF ~FilterParses(cond) \/ ReturnUsesEdge(resAql) THEN {BizError}
       ELSE {ReturnedList(ver, [i \in 1..Len(o) |-> ReturnValue(resAql, o[i])]) :
               o \in Sorted(DocEnvs(cond, c), keys)}

\* getsByFilter(_params), _params being the parameters of the pending call
getsByFilter ==
    /\ aqlOp = "getsByFilter" /\ aqlOutcome = "none"
    /\ IF ~getsByFilterSchema(variant, aqlParams)
       THEN /\ aqlOutcome' = "BizError"
            /\ res' = BizError
            /\ UNCHANGED aqlQuery
       ELSE /\ aqlOutcome' = "issued"
            /\ aqlQuery' = getsByFilterAql(variant, aqlParams)
            /\ res' \in getsByFilterResults(variant, aqlParams, coll)
    /\ UNCHANGED <<variant, aqlOp, aqlParams, coll, nextKey, deleted, edges, trail>>

\* filters of one and two keys, the two-key ones in both orders of their keys
GetsFilters ==
    {Undefined,
     Obj(<<Entry("name", Str(""))>>),
     Obj(<<Entry("name", Str("Al"))>>),
     Obj(<<Entry("name", Str("Bo")), Entry("_create_date", Arr(<<Str("1"), Str("2")>>))>>),
     Obj(<<Entry("_create_date", Arr(<<Str("1"), Str("2")>>)), Entry("name", Str("Bo"))>>),
     Obj(<<Entry("name", Arr(<<Str("Al"), Str("Bo")>>)), Entry("_create_date", Str("1"))>>),
     Obj(<<Entry("_create_date", Str("1")), Entry("name", Arr(<<Str("Al"), Str("Bo")>>))>>)}

GetsSorts ==
    {Undefined, Arr(<<>>), Arr(<<[field |-> "name", direction |-> Str("desc")]>>)}

GetsLikes == {Undefined, Like(Arr(<<LikeItem("name", "%o", FALSE)>>), Undefined)}

GetsParams ==
    [filter : GetsFilters, like : GetsLikes, sorts : GetsSorts, options : {Undefined}]

InitGets ==
    /\ variant \in Variants
    /\ aqlOp = "getsByFilter"
    /\ aqlParams \in GetsParams
    /\ aqlOutcome = "none"
    /\ aqlQuery = <<>>
    /\ coll \in PageColls
    /\ nextKey = Cardinality(DOMAIN coll) + 1
    /\ deleted = NoneDeleted
    /\ edges = EmptyColl
    /\ trail = {}
    /\ res = NoRes

NextGets == getsByFilter

SpecGets == InitGets /\ [][NextGets]_vars

\* the active records a filter of scalar and list values names: for every
\* key, field == value or field IN list
Selected(filter, c) ==
    {key \in DOMAIN c :
       /\ c[key]["_status"] = Bool(TRUE)
       /\ \A i \in 1..Len(filter.v) :
             LET e == filter.v[i]
             IN IF IsArray(e.val) THEN ATTR(c[key], e.key) \in Range(e.val.v)
                ELSE ATTR(c[key], e.key) = e.val}

\* the filter with its keys in the opposite order
Reversed(filter) ==
    Obj([i \in 1..Len(filter.v) |-> filter.v[Len(filter.v) + 1 - i]])

\* C16: for a filter of scalar and list values, the predicate getFilterAql
\* builds selects exactly the records with field == value (scalar) and
\* field IN list (list) for every key, and the selected records are the same
\* for every order of the keys
C16_FilterIsConjunction ==
    (aqlOp = "getsByFilter" /\ aqlOutcome = "issued" /\ Truthy(aqlParams.filter)) =>
        /\ res.k = "list"
        /\ {res.list[i]["_id"] : i \in 1..Len(res.list)}
             = {coll[key]["_id"] : key \in Selected(aqlParams.filter, coll)}
        /\ Len(res.list) = Cardinality(Selected(aqlParams.filter, coll))
        /\ \A r \in getsByFilterResults(variant,
                     [aqlParams EXCEPT !.filter = Reversed(aqlParams.filter)], coll) :
              {r.list[i] : i \in 1..Len(r.list)} = {res.list[i] : i \in 1..Len(res.list)}

\* getsByFilter has answered a filter of two keys, one with a list value,
\* with some but not all of the active records
C16_Witness ==
    /\ aqlOp = "getsByFilter" /\ aqlOutcome = "issued" /\ res.k = "list"
    /\ Truthy(aqlParams.filter) /\ Len(aqlParams.filter.v) = 2
    /\ Len(res.list) >= 1
    /\ \E key \in DOMAIN coll :
          /\ coll[key]["_status"] = Bool(TRUE)
          /\ key \notin Selected(aqlParams.filter, coll)

\* the call carries no sorts (absent or an empty list) and is otherwise valid
HasNoSorts ==
    /\ aqlParams.sorts \in {Undefined, Arr(<<>>)}
    /\ getsByFilterSchema(variant, [aqlParams EXCEPT !.sorts = Undefined])

\* C20: getsByFilter / getPage with no sorts (absent or an empty list) is
\* accepted and its records come ordered by their identifier alone, a total
\* order
C20_NoSortsOrderedById ==
    (aqlOp = "getsByFilter" /\ aqlOutcome # "none" /\ HasNoSorts) =>
        /\ res.k = "list"
        /\ \A i, j \in 1..Len(res.list) :
              i < j => AqlLess(res.list[i]["_id"], res.list[j]["_id"])

-----------------------------------------------------------------------------
(* update without aqlOption *)

\* the step is a call update({_id, newObj}) with a valid input and no
\* aqlOption on the stored active record of key
IsPlainUpdateOf(key) ==
    /\ aqlOp' = "update"
    /\ updateSchema(variant, aqlParams')
    /\ aqlParams'.aqlOption = Undefined
    /\ key \in DOMAIN coll
    /\ coll[key]["_id"] = aqlParams'._id
    /\ coll[key]["_status"] = Bool(TRUE)

\* C18: update({_id, newObj}) without aqlOption on an existing active record
\* succeeds: the non-protected fields of the record take the values of
\* newObj, _update_date is set, every other record is unchanged and {_id} is
\* returned
C18_PlainUpdateSucceeds ==
    [][\A key \in DOMAIN coll :
          IsPlainUpdateOf(key) =>
             LET newObj == DocOf(aqlParams'.newObj)
             IN /\ res' = ReturnedId(aqlParams'._id)
                /\ DOMAIN coll' = DOMAIN coll
                /\ \A a \in DOMAIN newObj \ Range(unset) :
                      ATTR(coll'[key], a) = newObj[a]
                /\ "_update_date" \in DOMAIN coll'[key]
                /\ \A other \in DOMAIN coll \ {key} : coll'[other] = coll[other]
      ]_vars

-----------------------------------------------------------------------------
(* The response shapes of getResAql *)

\* the flag of the options of the call is set
OptionSet(options, flag) == Truthy(options) /\ options.v[flag] = TRUE

\* the item is a record with no edge ends merged in and no pair
IsPlainRecord(item) ==
    /\ DOMAIN item # {"vertex", "edge"}
    /\ DOMAIN item \cap {"_from", "_to"} = {}

\* C19: the response shapes of getResAql, in each variant.  On an edge alias
\* (getVertices, getGraphVertices): hasEdge gives {vertex, edge} pairs,
\* hasFromTo gives the vertex projection merged with the edge's _from and
\* _to, and no options (or neither flag) gives the record with no edge ends
\* merged in.  On a document query (getOne) hasEdge and hasFromTo do not
\* change the shape: the plain record is returned.
C19_ResponseShapes ==
    /\ (aqlOp \in {"getVertices", "getGraphVertices"} /\ res.k = "list") =>
          \A i \in 1..Len(res.list) :
             LET item == res.list[i] IN
             IF OptionSet(aqlParams.options, "hasEdge")
             THEN DOMAIN item = {"vertex", "edge"}
             ELSE IF OptionSet(aqlParams.options, "hasFromTo")
             THEN {"_from", "_to"} \subseteq DOMAIN item
             ELSE IsPlainRecord(item)
    /\ (aqlOp = "getOne" /\ aqlOutcome = "issued") =>
          /\ res # BizError
          /\ RecordOf(res).k = "doc" => IsPlainRecord(RecordOf(res).v)

-----------------------------------------------------------------------------
(* getsByFilter: filter and like *)

\* each part of the request that is present is valid by itself
PartsAreValid(ver, p) ==
    /\ Optional(p.filter, filterMinRequired)
    /\ Optional(p.like, LAMBDA l : likeSchema(ver, l))
    /\ Optional(p.sorts, sortSchema)
    /\ Optional(p.options, LAMBDA o : optionsSchema(ver, o))

\* the request carries exactly one of filter and like
CarriesOneOfFilterAndLike(p) == (p.filter # Undefined) # (p.like # Undefined)

\* C21: getsByFilter accepts a request that carries exactly one of filter and
\* like; a request that carries both, and one that carries neither, is
\* rejected as a validation error before any query is issued
C21_ExactlyOneOfFilterAndLike ==
    (aqlOp = "getsByFilter" /\ aqlOutcome # "none" /\ PartsAreValid(variant, aqlParams)) =>
        IF CarriesOneOfFilterAndLike(aqlParams)
        THEN aqlOutcome = "issued"
        ELSE aqlOutcome = "BizError" /\ aqlQuery = <<>>

-----------------------------------------------------------------------------
(* Edge reads with filters and sorts on a small graph: vertex 1 with the    *)
(* edges 4 (1 -> 2) and 6 (1 -> 3); vertices carry tags, edges a kind.      *)

TagLists == {Arr(<<>>), Arr(<<Str("a")>>), Arr(<<Str("b")>>)}

\* the vertex collections: all active, every name and tag list on 2 and 3
TaggedVertices ==
    {[key \in {"1", "2", "3"} |->
        MERGE(StoredDoc(key, IF key = "1" THEN "Al" ELSE f[key].name, TRUE, key),
              [tags |-> IF key = "1" THEN Arr(<<>>) ELSE f[key].tags])] :
       f \in [{"2", "3"} -> [name : {"Al", "Bo"}, tags : TagLists]]}

\* the edge collections: both edges active, each of kind x or y
KindEdges ==
    {[key \in {"4", "6"} |->
        MERGE(StoredEdge(key, EdgeEnds[key][1], EdgeEnds[key][2], TRUE),
              [kind |-> Str(f[key])])] :
       f \in [{"4", "6"} -> {"x", "y"}]}

EdgeVFilters ==
    {Undefined,
     Obj(<<Entry("tags", OprValue(Str("POSITION"), Arr(<<Str("a"), Str("b")>>)))>>),
     Obj(<<Entry("tags", OprValue(Str("POSITION"), Str("a"))), Entry("name", Str("Bo"))>>)}

EdgeEFilters == {Undefined, Obj(<<Entry("kind", Str("x"))>>)}

EdgeVSorts == {Undefined, Arr(<<[field |-> "name", direction |-> Str("desc")]>>)}

EdgeESorts == {Undefined, Arr(<<[field |-> "kind", direction |-> Str("asc")]>>)}

EdgeReadParams(op) ==
    IF op = "getGraphVertices"
    THEN [direction : {Str("OUTBOUND")}, start_id : {IdOf(getWithCollectionNames, "1")},
          depth : {Num(1)},
          v_filter : EdgeVFilters, e_filter : EdgeEFilters,
          v_sorts : EdgeVSorts, e_sorts : EdgeESorts,
          options : {Options(Undefined, TRUE, FALSE, FALSE)}]
    ELSE [direction : {Str("OUTBOUND")}, _id : {IdOf(getWithCollectionNames, "1")},
          v_filter : EdgeVFilters, e_filter : EdgeEFilters,
          v_sorts : EdgeVSorts, e_sorts : EdgeESorts,
          options : {Options(Undefined, TRUE, FALSE, FALSE)}]

InitEdge ==
    /\ variant \in Variants
    /\ aqlOp \in {"getGraphVertices", "getVertices"}
    /\ aqlParams \in EdgeReadParams(aqlOp)
    /\ aqlOutcome = "none"
    /\ aqlQuery = <<>>
    /\ coll \in TaggedVertices
    /\ edges \in KindEdges
    /\ trail = {}
    /\ nextKey = 1
    /\ deleted = NoneDeleted
    /\ res = NoRes

NextEdge == getGraphVertices \/ getVertices

SpecEdge == InitEdge /\ [][NextEdge]_vars

\* the record satisfies the entry of a filter: membership for a list,
\* "some listed value is in the array field" for POSITION, equality otherwise
SatisfiesEntry(doc, e) ==
    IF IsArray(e.val) THEN ATTR(doc, e.key) \in Range(e.val.v)
    ELSE IF IsObject(e.val) /\ Get(e.val, "opr") = Str("POSITION")
    THEN LET value == Get(e.val, "value")
         IN IF IsArray(value)
            THEN \E i \in 1..Len(value.v) : IsMember(value.v[i], ATTR(doc, e.key))
            ELSE IsMember(value, ATTR(doc, e.key))
    ELSE ATTR(doc, e.key) = e.val

SatisfiesFilter(doc, filter) ==
    Truthy(filter) => \A i \in 1..Len(filter.v) : SatisfiesEntry(doc, filter.v[i])

\* C22: in the edge reads called with both v_filter and e_filter, every
\* returned (vertex, edge) pair satisfies every entry of v_filter and every
\* entry of e_filter, also when v_filter holds a POSITION entry with a list
\* of two or more values
C22_BothFiltersHold ==
    (/\ aqlOp \in {"getVertices", "getGraphVertices"} /\ res.k = "list"
     /\ Truthy(aqlParams.v_filter) /\ Truthy(aqlParams.e_filter)) =>
        \A i \in 1..Len(res.list) :
            /\ SatisfiesFilter(res.list[i].vertex, aqlParams.v_filter)
            /\ SatisfiesFilter(res.list[i].edge, aqlParams.e_filter)

-----------------------------------------------------------------------------
(* getPage called again with the parameter object of an answered call *)

\* getPage(_params) with the object a first, answered call was given: the
\* object carries what that call assigned to it (_params.offset, _params.count).
\* trail keeps the answer of the first call.
getPageAgain ==
    /\ aqlOp = "getPage" /\ aqlOutcome = "issued" /\ trail = {}
    /\ trail' = {res}
    /\ IF ~getPageSchema(variant, aqlParams)
       THEN /\ aqlOutcome' = "BizError"
            /\ res' = BizError
            /\ aqlQuery' = <<>>
            /\ UNCHANGED aqlParams
       ELSE /\ aqlOutcome' = "issued"
            /\ aqlParams' =
                 [aqlParams EXCEPT
                    !.offset = Num(convertOffset(aqlParams.page_num.v, aqlParams.page_size.v)),
                    !.count = aqlParams.page_size]
            /\ aqlQuery' = getPageAql(variant, aqlParams)
            /\ res' \in getPageResults(variant, aqlParams, coll)
    /\ UNCHANGED <<variant, aqlOp, coll, nextKey, deleted, edges>>

NextAgain == getPage \/ getPageAgain

SpecAgain == InitPage /\ [][NextAgain]_vars

\* C23: a parameter object a first call of getPage accepted is accepted again
\* by a second call and, on unchanged data, yields a result of the same
\* request: the first call leaves nothing on the object that changes the
\* validation of the second
C23_SecondCallAccepted ==
    (aqlOp = "getPage" /\ trail # {}) =>
        /\ aqlOutcome = "issued"
        /\ res \in getPageResults(variant, aqlParams, coll)


-----------------------------------------------------------------------------
(* Soft-deleted records under the writing operations *)

\* Joi.array().min(1).items(filterMinRequired.required())
savesSchema(ver, docs) ==
    /\ IsArray(docs) /\ Len(docs.v) >= 1
    /\ \A i \in 1..Len(docs.v) : filterMinRequired(docs.v[i])

savesAql(ver, docs, date) ==
    T("let tsl = ( FOR t IN") \o B(docs) \o T("INSERT MERGE(UNSET(t,") \o B(StrArr(unset))
    \o T("), { _create_date:") \o B(Str(date)) \o T(", _status: true }) INTO")
    \o collection \o T("RETURN NEW._id ) RETURN {_ids: tsl}")

\* BaseDao.saves(docs)
savesHandler(ver, docs, c, n) ==
    IF ~savesSchema(ver, docs) THEN Thrown(c)
    ELSE Queried(savesAql(ver, docs, ComposeDate),
                 ReturnedIds([i \in 1..Len(docs.v) |->
                                IdOf(getCollectionName, KeyNames[n + i - 1])]),
                 InsertAll(c, n,
                           [i \in 1..Len(docs.v) |->
                              Payload(docs.v[i], [_create_date |-> Str(ComposeDate),
                                                  _status |-> Bool(TRUE)])],
                           ComposeDate))

\* saves(docs)
saves(docs) ==
    /\ savesSchema(variant, docs) => nextKey + Len(docs.v) - 1 <= MaxRows
    /\ Leaves("saves", docs, savesHandler(variant, docs, coll, nextKey))
    /\ nextKey' = IF savesSchema(variant, docs) THEN nextKey + Len(docs.v) ELSE nextKey

\* a payload that names a stored record and calls it active
RevivingObj(key) ==
    Obj(<<Entry("name", Str("Bo")), Entry("_status", Bool(TRUE)),
          Entry("_id", IdOf(getCollectionName, key)), Entry("_key", Str(key))>>)

SoftIds == {IdOf(getCollectionName, key) : key \in RowKeys(2)}

SoftIdLists ==
    {Arr(<<IdOf(getCollectionName, "1")>>),
     Arr(<<IdOf(getCollectionName, "2"), IdOf(getCollectionName, "1")>>)}

\* one stored record, active or soft-deleted; save and saves add to it
InitSoft ==
    /\ variant \in Variants
    /\ aqlOp = "none"
    /\ aqlParams = Undefined
    /\ aqlOutcome = "none"
    /\ aqlQuery = <<>>
    /\ coll \in {[key \in RowKeys(1) |-> StoredDoc(key, "Al", status, "1")] :
                   status \in BOOLEAN}
    /\ nextKey = 2
    /\ deleted = NoneDeleted
    /\ edges = EmptyColl
    /\ trail = {}
    /\ res = NoRes

NextSoft ==
    \/ \E key \in RowKeys(2) : save(RevivingObj(key))
    \/ \E key \in RowKeys(2) : saves(Arr(<<RevivingObj(key)>>))
    \/ \E _id \in SoftIds, key \in RowKeys(2) :
          update([_id |-> _id, newObj |-> RevivingObj(key), aqlOption |-> Undefined])
    \/ \E _ids \in SoftIdLists, key \in RowKeys(2) :
          updates(IdsParams(_ids, RevivingObj(key)))
    \/ \E _id \in SoftIds, key \in RowKeys(2) :
          updatesEach(Arr(<<Item(_id, RevivingObj(key))>>))
    \/ \E _id \in SoftIds : delete(_id)
    \/ \E _ids \in SoftIdLists : deletes(_ids)

SpecSoft == InitSoft /\ [][NextSoft]_vars

\* the read calls the soft-deleted records are looked for with
SoftReads ==
    [getOne |-> {[_id |-> _id, options |-> Undefined] : _id \in SoftIds},
     getOneByFilter |-> {[filter |-> Obj(<<Entry("name", Str(n))>>), options |-> Undefined] :
                         n \in {"Al", "Bo"}},
     getsByFilter |-> {[filter |-> Obj(<<Entry("password", Str("other"))>>),
                      like |-> Undefined, sorts |-> Undefined, options |-> Undefined]},
     getPage |-> {[page_num |-> Num(1), page_size |-> Num(2), filter |-> Undefined,
                 like |-> Undefined, sorts |-> Undefined, options |-> Undefined,
                 offset |-> Undefined, count |-> Undefined]}]

\* every answer the four reads may give on collection c
ReadAnswers(ver, c) ==
    UNION ({getOneResults(ver, p, c) : p \in {q \in SoftReads.getOne : getOneSchema(ver, q)}}
           \cup {getOneByFilterResults(ver, p, c) :
                   p \in {q \in SoftReads.getOneByFilter : getOneByFilterSchema(ver, q)}}
           \cup {getsByFilterResults(ver, p, c) :
                   p \in {q \in SoftReads.getsByFilter : getsByFilterSchema(ver, q)}}
           \cup {getPageResults(ver, p, c) :
                   p \in {q \in SoftReads.getPage : getPageSchema(ver, q)}})

\* the ids of the records an answer shows
ShownIds(r) ==
    IF r.k = "keyed" /\ r.v.k = "doc" THEN {r.v.v["_id"]}
    ELSE IF r.k = "doc" THEN {r.v["_id"]}
    ELSE IF r.k \in {"list", "page"} THEN {r.list[i]["_id"] : i \in 1..Len(r.list)}
    ELSE {}

IsSoftDeleted(c, key) == key \in DOMAIN c /\ c[key]["_status"] = Bool(FALSE)

\* C24: a record that is soft-deleted stays soft-deleted through every save,
\* saves, update, updates, updatesEach, delete and deletes call, whatever the
\* payload (_status: true, _id and _key included), and after the call neither
\* getOne, getOneByFilter, getsByFilter nor getPage shows it.
C24_SoftDeletedStaysHidden ==
    [][\A key \in DOMAIN coll :
         IsSoftDeleted(coll, key) =>
            /\ IsSoftDeleted(coll', key)
            /\ \A r \in ReadAnswers(variant, coll') : coll'[key]["_id"] \notin ShownIds(r)]_vars

\* a write with a reviving payload went through on a soft-deleted record
\* while the reads show some other record
C24_Witness ==
    /\ aqlOp \in {"update", "updates", "updatesEach"} /\ aqlOutcome = "issued"
    /\ res # BizError
    /\ \E key \in DOMAIN coll :
          /\ IsSoftDeleted(coll, key)
          /\ coll[key]["name"] = Str("Bo")
    /\ \E r \in ReadAnswers(variant, coll) : ShownIds(r) # {}


-----------------------------------------------------------------------------
(* updates and update on absent and soft-deleted records *)

\* id lists over the two stored records and an id no record has
ManyIdLists ==
    {Arr(<<IdOf(getCollectionName, "1")>>),
     Arr(<<IdOf(getCollectionName, "1"), IdOf(getCollectionName, "2")>>),
     Arr(<<IdOf(getCollectionName, "3")>>),
     Arr(<<IdOf(getCollectionName, "2"), IdOf(getCollectionName, "3")>>)}

ManyNewObjs == {EachNewObjs[1], EachNewObjs[2]}

NextMany ==
    \/ \E _ids \in ManyIdLists, newObj \in ManyNewObjs : updates(IdsParams(_ids, newObj))
    \/ \E key \in RowKeys(3), newObj \in ManyNewObjs :
          update([_id |-> IdOf(getCollectionName, key), newObj |-> newObj,
                  aqlOption |-> Undefined])

SpecMany == InitEach /\ [][NextMany]_vars

\* the keys of the active records of c whose id is among ids
ActiveAmong(c, ids) ==
    {key \in DOMAIN c : c[key]["_status"] = Bool(TRUE) /\ c[key]["_id"] \in Range(ids)}

\* what an updates or update call does to the collection and answers, given
\* the active records its ids name before the call
SkipsInactive ==
    /\ (aqlOp' = "updates" /\ updatesSchema(variant, aqlParams')) =>
          LET hit == ActiveAmong(coll, aqlParams'._ids.v)
              patch == Payload(aqlParams'.newObj, [_update_date |-> Str(ComposeDate)])
          IN /\ res' # BizError
             /\ Range(res'._ids) = {coll[key]["_id"] : key \in hit}
             /\ coll' = [key \in DOMAIN coll |->
                           IF key \in hit THEN MERGE(coll[key], patch) ELSE coll[key]]
    /\ (aqlOp' = "update" /\ ActiveAmong(coll, <<aqlParams'._id>>) = {}) =>
          res' = BizError /\ coll' = coll

\* C25: updates({_ids, newObj}) modifies exactly the active records whose id
\* is in _ids and returns exactly their ids; ids of absent or soft-deleted
\* records raise no error, even when none matches (the returned _ids is then
\* empty).  update of one absent or soft-deleted id raises a business error.
C25_UpdatesSkipsInactive == [][SkipsInactive]_vars


-----------------------------------------------------------------------------
(* getsByFilter and getPage with a like specification *)

\* like objects with an or-group, an and-group, both, neither, an empty group
LikeSpecs ==
    {Like(Arr(<<LikeItem("name", "%o", FALSE), LikeItem("_create_date", "1", FALSE)>>),
          Undefined),
     Like(Undefined,
          Arr(<<LikeItem("name", "%o", FALSE), LikeItem("_create_date", "1", FALSE)>>)),
     Like(Arr(<<LikeItem("name", "A%", FALSE), LikeItem("_create_date", "1", FALSE)>>),
          Arr(<<LikeItem("_create_date", "2", FALSE)>>)),
     Like(Arr(<<LikeItem("name", "A%", TRUE)>>),
          Arr(<<LikeItem("name", "%", FALSE), LikeItem("_create_date", "1", FALSE)>>)),
     Like(Undefined, Undefined),
     Like(Arr(<<>>), Undefined)}

LikeFilters == {Undefined, Obj(<<Entry("name", Str("Al"))>>)}

LikeParams(op) ==
    IF op = "getsByFilter"
    THEN [filter : LikeFilters, like : LikeSpecs, sorts : {Undefined}, options : {Undefined}]
    ELSE [page_num : {Num(1)}, page_size : {Num(MaxRows)}, filter : LikeFilters,
          like : LikeSpecs, sorts : {Undefined}, options : {Undefined},
          offset : {Undefined}, count : {Undefined}]

InitLike ==
    /\ variant \in Variants
    /\ aqlOp \in {"getsByFilter", "getPage"}
    /\ aqlParams \in LikeParams(aqlOp)
    /\ aqlOutcome = "none"
    /\ aqlQuery = <<>>
    /\ coll \in PageColls
    /\ nextKey = Cardinality(DOMAIN coll) + 1
    /\ deleted = NoneDeleted
    /\ edges = EmptyColl
    /\ trail = {}
    /\ res = NoRes

NextLike == getsByFilter \/ getPage

SpecLike == InitLike /\ [][NextLike]_vars

-----------------------------------------------------------------------------
(* The depth of getGraphVertices *)

\* the hop range a request of depth d is to traverse
HopsOf(p) ==
    LET d == p.depth.v IN
    IF d <= 0 THEN [min |-> 0, max |-> 0]
    ELSE IF d = 1 THEN [min |-> 1, max |-> 1]
    ELSE IF Truthy(p.options) /\ p.options.v.depthLimit THEN [min |-> d, max |-> d]
    ELSE [min |-> 1, max |-> d]

\* C27: getGraphVertices with depth d >= 2 traverses the range 1..d without
\* depthLimit and exactly d hops with depthLimit true; depth 1 traverses
\* exactly one hop; depth <= 0 traverses zero hops (only the start vertex).
C27_DepthRange ==
    (aqlOp = "getGraphVertices" /\ aqlOutcome = "issued") =>
        res \in TraversalResults(variant, getGraphVerticesFilter(variant, aqlParams),
                                 EdgeSortAql(variant, aqlParams),
                                 getResAql(variant, aqlParams.options, "v"),
                                 Traversal(coll, edges, aqlParams.direction.v,
                                           aqlParams.start_id,
                                           HopsOf(aqlParams).min, HopsOf(aqlParams).max))


-----------------------------------------------------------------------------
(* The order of the (vertex, edge) pairs of the edge reads *)

\* the key a variant sorts by when a sorts list is absent
DefaultSort(ver) ==
    IF ver = V2 THEN <<[field |-> "_id", direction |-> Str("asc")]>>
    ELSE <<[field |-> "_create_date", direction |-> Str("desc")]>>

SortsOr(ver, sorts) == IF Truthy(sorts) THEN sorts.v ELSE DefaultSort(ver)

\* pair a stands strictly before pair b when the keys of the part `first`
\* are compared before the keys of the other part
PairBefore(ver, p, first, a, b) ==
    LET eKeys == SortsOr(ver, p.e_sorts)
        vKeys == SortsOr(ver, p.v_sorts)
        eBefore == SortsBefore(eKeys, 1, a.edge, b.edge)
        eAfter == SortsBefore(eKeys, 1, b.edge, a.edge)
        vBefore == SortsBefore(vKeys, 1, a.vertex, b.vertex)
        vAfter == SortsBefore(vKeys, 1, b.vertex, a.vertex)
    IN IF first = "edge" THEN eBefore \/ (~eAfter /\ vBefore)
       ELSE vBefore \/ (~vAfter /\ eBefore)

\* C28: in each variant a supplied e_sorts takes effect: the pairs come
\* ordered by the edge keys first and the vertex keys second; without e_sorts
\* they come ordered by the vertex keys first and the default edge key second.
C28_EdgeSortsTakeEffect ==
    (aqlOp \in {"getVertices", "getGraphVertices"} /\ res.k = "list") =>
        LET first == IF Truthy(aqlParams.e_sorts) THEN "edge" ELSE "vertex" IN
        \A i, j \in 1..Len(res.list) :
            i < j => ~PairBefore(variant, aqlParams, first, res.list[j], res.list[i])


-----------------------------------------------------------------------------
(* getPage over every page_num and page_size validation accepts *)

\* the integers page_num and page_size are drawn from
PageInts == {Num(-1), Num(0), Num(1), Num(2)}

SizeParams ==
    [page_num : PageInts, page_size : PageInts,
     filter : {Undefined, Obj(<<Entry("name", Str("Al"))>>)}, like : {Undefined},
     sorts : {Undefined}, options : {Undefined}, offset : {Undefined}, count : {Undefined}]

InitSize ==
    /\ variant \in Variants
    /\ aqlOp = "getPage"
    /\ aqlParams \in SizeParams
    /\ aqlOutcome = "none"
    /\ aqlQuery = <<>>
    /\ coll \in PageColls
    /\ nextKey = Cardinality(DOMAIN coll) + 1
    /\ deleted = NoneDeleted
    /\ edges = EmptyColl
    /\ trail = {}
    /\ res = NoRes

NextSize == getPage

SpecSize == InitSize /\ [][NextSize]_vars

\* C29: for every page_num and page_size validation accepts (any integers,
\* zero and negative ones included) getPage returns a well-formed envelope:
\* 0 <= end <= total_count, has_more = false implies end = total_count, the
\* items are at most page_size, and they are end - offset when
\* offset <= total_count.
C29_EnvelopeWellFormed ==
    (aqlOp = "getPage" /\ aqlOutcome = "issued") =>
        /\ res.k = "page"
        /\ 0 <= res.end /\ res.end <= res.total_count
        /\ ~res.has_more => res.end = res.total_count
        /\ Len(res.list) <= aqlParams.page_size.v
        /\ aqlParams.offset.v <= res.total_count =>
              Len(res.list) = res.end - aqlParams.offset.v


-----------------------------------------------------------------------------
(* getsByFilter with a POSITION entry on an array attribute *)

\* the collections of up to two records, each with a list of tags
TagColls ==
    UNION {{[key \in RowKeys(n) |->
               MERGE(StoredDoc(key, f[key].name, f[key].status, "1"),
                     [tags |-> f[key].tags])] :
              f \in [RowKeys(n) -> [name : {"Al", "Bo"}, status : BOOLEAN,
                                    tags : TagLists \cup {Arr(<<Str("a"), Str("b")>>)}]]} :
           n \in 0..2}

\* POSITION entries with a list of no, one and two values, alone and beside
\* an equality entry
TagFilters ==
    {Obj(<<Entry("tags", OprValue(Str("POSITION"), Arr(<<>>)))>>),
     Obj(<<Entry("tags", OprValue(Str("POSITION"), Arr(<<Str("a")>>)))>>),
     Obj(<<Entry("tags", OprValue(Str("POSITION"), Arr(<<Str("a"), Str("b")>>)))>>),
     Obj(<<Entry("tags", OprValue(Str("POSITION"), Arr(<<Str("b"), Str("a")>>))),
           Entry("name", Str("Bo"))>>)}

InitTags ==
    /\ variant \in Variants
    /\ aqlOp = "getsByFilter"
    /\ aqlParams \in [filter : TagFilters, like : {Undefined}, sorts : {Undefined},
                      options : {Undefined}]
    /\ aqlOutcome = "none"
    /\ aqlQuery = <<>>
    /\ coll \in TagColls
    /\ nextKey = Cardinality(DOMAIN coll) + 1
    /\ deleted = NoneDeleted
    /\ edges = EmptyColl
    /\ trail = {}
    /\ res = NoRes

NextTags == getsByFilter

SpecTags == InitTags /\ [][NextTags]_vars

\* the active records of c that satisfy every entry of the filter
Positioned(filter, c) ==
    {key \in DOMAIN c : c[key]["_status"] = Bool(TRUE) /\ SatisfiesFilter(c[key], filter)}

\* C30: a POSITION entry with a list selects exactly the active records whose
\* array field holds at least one of the listed values; with an empty list
\* it selects no record.
C30_PositionList ==
    (aqlOp = "getsByFilter" /\ aqlOutcome = "issued") =>
        /\ res.k = "list"
        /\ {res.list[i]["_id"] : i \in 1..Len(res.list)}
             = {coll[key]["_id"] : key \in Positioned(aqlParams.filter, coll)}
====
